---- MODULE Spec2Model ----
(***************************************************************************)
(* A model of the restic-api job runner: the request handlers that launch  *)
(* the backup tool as a subprocess, stream its output as events, keep the  *)
(* job logs and maintain the location registry in config.json.             *)
(*                                                                         *)
(* Every request is served by a slot (a server thread).  A handler is cut  *)
(* into steps at the places where it touches shared state (config.json,    *)
(* the password store, the log directory, the subprocess pipe) or where    *)
(* its generator is suspended at a yield.                                  *)
(***************************************************************************)
EXTENDS Integers, Sequences, FiniteSets, TLC

VARIABLES
    config,          \* content of ~/.restic-api/config.json
    password_store,  \* content of ~/.restic-api/password-store: key -> secret
    backup_logs,     \* ~/.restic-api/backup_logs/<id>.txt: id -> file content
    req,             \* per slot: the request being served
    pc,              \* per slot: position of the handler / generator
    loc,             \* per slot: locals of the handler (password, config copy, cmd)
    gen,             \* per slot: locals of the stream generator
    proc,            \* per slot: the subprocess of the request
    events,          \* per slot: the events the generator has yielded, in order
    resp,            \* per slot: the HTTP response returned by the handler
    nreq,            \* number of requests accepted so far
    server,          \* the module that serves the routes: "backup" or "main"
    crontab,         \* the user's crontab: the jobs by the schedule id of their comment
    platform         \* platform.system().lower() of the host

vars ==
    <<config, password_store, backup_logs, req, pc, loc, gen, proc, events, resp,
      nreq, server, crontab, platform>>

-----------------------------------------------------------------------------
(* Bounds *)

MaxReq == 3          \* requests accepted in one behaviour of Spec
SeqMaxReq == 3       \* requests accepted in one behaviour of SeqSpec
MaxLines == 2        \* lines a subprocess prints in SeqSpec
SchedSeqMaxReq == 4  \* requests accepted in one behaviour of SchedSeqSpec
ExecSeqMaxReq == 4   \* requests accepted in one behaviour of ExecSeqSpec
SchedMaxReq == 4     \* requests accepted in one behaviour of SchedSpec
ConcMaxLines == 1    \* lines a subprocess prints in Spec
QuerySeqMaxReq == 2  \* requests accepted in one behaviour of QuerySeqSpec
MaxRows == 3         \* lines the snapshot table has after its header
MaxNodes == 3        \* lines "restic ls --json" prints

Slots == {1, 2}      \* the server threads: two requests are served concurrently

-----------------------------------------------------------------------------
(* Values *)

Absent == "<absent>"      \* a dict key / header that is not there (None)
NoneId == "None"          \* snapshot_id = None

\* Output lines are sequences of tokens; " " and "\n" are the whitespace tokens.
WS == {" ", "\n"}
Hex8 == {"1a2b3c4d", "9f8e7d6c"}     \* tokens of 8 characters of [a-f0-9]

PlainLine == <<"scan", " ", "done", "\n">>
BlankLine == <<"\n">>
SavedLine(id) == <<"snapshot", " ", id, " ", "saved", "\n">>
JsonSummaryLine(id) == <<"{", "summary", id, "}", "\n">>
JsonStatusLine == <<"{", "status", "}", "\n">>
BrokenJsonLine == <<"{", "status", "\n">>

\* str.strip(): drop the leading and the trailing whitespace.
RECURSIVE LStrip(_)
LStrip(line) ==
    IF line # <<>> /\ Head(line) \in WS THEN LStrip(Tail(line)) ELSE line

RECURSIVE RStrip(_)
RStrip(line) ==
    IF line # <<>> /\ line[Len(line)] \in WS
    THEN RStrip(SubSeq(line, 1, Len(line) - 1))
    ELSE line

Strip(line) == RStrip(LStrip(line))

\* str.lower() on one token.
LowerTok(t) ==
    CASE t = "Snapshot" -> "snapshot"
      [] OTHER -> t

Lower(line) == [i \in 1..Len(line) |-> LowerTok(line[i])]

\* 'word' in line
Contains(line, word) == \E i \in 1..Len(line) : line[i] = word

\* re.search(r'snapshot ([a-f0-9]{8})', line): the positions where the pattern
\* matches, and group(1) of the leftmost match.
MatchAt(line) ==
    {i \in 1..Len(line) :
        /\ i + 2 <= Len(line)
        /\ line[i] = "snapshot"
        /\ line[i + 1] = " "
        /\ line[i + 2] \in Hex8}

Min(S) == CHOOSE m \in S : \A n \in S : m <= n

Min2(a, b) == IF a < b THEN a ELSE b

\* The update of snapshot_id by one output line (utils.py lines 143-146).
ExtractSnapshotId(line, sid) ==
    IF Contains(Lower(line), "snapshot") /\ Contains(Lower(line), "saved")
    THEN IF MatchAt(line) # {} THEN line[Min(MatchAt(line)) + 2] ELSE sid
    ELSE sid

\* f.writelines(lines) followed by f.read(): the concatenation of the lines.
RECURSIVE Concat(_)
Concat(lines) ==
    IF lines = <<>> THEN <<>> ELSE Head(lines) \o Concat(Tail(lines))

\* The text a tool printed, from its lines: each line ends with a newline.
RECURSIVE JoinLines(_)
JoinLines(lines) ==
    IF lines = <<>> THEN <<>> ELSE Head(lines) \o <<"\n">> \o JoinLines(Tail(lines))

\* str.split('\n'): the pieces between the newlines; one piece for a text
\* without a newline, the empty text included.
RECURSIVE SplitLines(_)
SplitLines(text) ==
    IF \E i \in 1..Len(text) : text[i] = "\n"
    THEN LET i == Min({j \in 1..Len(text) : text[j] = "\n"})
         IN  <<SubSeq(text, 1, i - 1)>> \o SplitLines(SubSeq(text, i + 1, Len(text)))
    ELSE <<text>>

\* json.loads(line) succeeds
IsJson(stripped) ==
    Len(stripped) >= 2 /\ stripped[1] = "{" /\ stripped[Len(stripped)] = "}"

\* str.split(): the tokens between runs of whitespace.
NotWS(t) == t \notin WS
Split(line) == SelectSeq(line, NotWS)

\* The filesystem paths that exist (os.path.exists): backup sources and restore
\* targets as strings, repository targets as sequences of path segments
\* ("/tmp/repoB/" is <<"tmp", "repoB", "">>).
ExistingPaths == {"/data", "/docs"}
ExistingDirs == {<<"tmp", "repoA">>, <<"srv", "repoA">>, <<"tmp", "repoB", "">>}

PathExists(p) == p \in ExistingPaths
DirExists(segs) == segs \in ExistingDirs

\* location.rstrip('/')
RECURSIVE RStripSlash(_)
RStripSlash(segs) ==
    IF segs # <<>> /\ segs[Len(segs)] = ""
    THEN RStripSlash(SubSeq(segs, 1, Len(segs) - 1))
    ELSE segs

\* os.path.basename
Basename(segs) == IF segs = <<>> THEN "" ELSE segs[Len(segs)]


-----------------------------------------------------------------------------
(* The persisted stores *)

\* A location as backup.init_location writes it.
NewLocation(target) == [repo_path |-> target, paths |-> <<>>]

\* A location in the schema of main.py (main.init_location).
MainLocation(target, name) == [repository |-> target, name |-> name]

\* load_config() when config.json does not exist.
DefaultConfig == [locations |-> <<>>, restored_paths |-> <<>>, schedules |-> <<>>]

\* A config.json left by a deployment of main.py: one location in its schema.
LegacyConfig ==
    [locations |-> ("old" :> MainLocation("/srv/old", "old")), restored_paths |-> <<>>]

\* HasLocationAlways is the variant that finds every id registered.
HasLocationAlways(c, id) == TRUE

HasLocation(c, id) == id \in DOMAIN c.locations

HasField(rec, f) == f \in DOMAIN rec

\* The known paths of a location ('paths'), empty for a record without the field.
KnownPaths(c, id) ==
    IF HasLocation(c, id) /\ HasField(c.locations[id], "paths")
    THEN c.locations[id].paths
    ELSE <<>>

InSeq(x, seq) == \E i \in 1..Len(seq) : seq[i] = x

\* Lines 91-93 and 108-110 of utils.py: the append of the source token to the
\* copy of the configuration the handler loaded.  AppendAlways is the variant
\* without the membership test.
AppendAlways(c, id, token) ==
    [c EXCEPT !.locations[id].paths = Append(@, token)]

AppendIfAbsent(c, id, token) ==
    IF InSeq(token, c.locations[id].paths)
    THEN c
    ELSE [c EXCEPT !.locations[id].paths = Append(@, token)]

\* get_password_from_key: None for a key that is not in the store.
get_password_from_key(key) ==
    IF key \in DOMAIN password_store THEN password_store[key] ELSE Absent

HasLog(id) == id \in DOMAIN backup_logs

-----------------------------------------------------------------------------
(* Requests *)

NoReq ==
    [handler |-> "none", location_id |-> Absent, header |-> Absent, key |-> Absent,
     type |-> Absent, path |-> Absent, command |-> Absent, filename |-> Absent,
     target |-> Absent, backup_id |-> Absent, location |-> <<>>, password |-> Absent,
     frequency |-> Absent, time |-> <<>>, schedule_id |-> Absent]

NoLoc ==
    [password |-> Absent, cfg |-> DefaultConfig, schedule_id |-> Absent,
     passwords |-> <<>>, cron_expression |-> <<>>, success |-> FALSE,
     ran |-> "none", stdout |-> <<>>]

NoGen ==
    [output_lines |-> <<>>, snapshot_id |-> NoneId, success |-> FALSE,
     processed_files |-> 0, last_progress |-> -1, total_files |-> 0,
     count_failed |-> FALSE, how |-> "none"]

\* A subprocess: its state, exit code and pipe, and the argument list and the
\* environment variables it was started with.
NoProc ==
    [st |-> "none", rc |-> 0, out |-> <<>>, rd |-> 0, terminated |-> FALSE,
     cmd |-> <<>>, env |-> <<>>]

NoResp == [status |-> 0, body |-> "none"]

ErrorResp(code) == [status |-> code, body |-> "error"]
StreamResp == [status |-> 200, body |-> "stream"]

\* The value main.py takes for the password from utils.get_password_from_header():
\* the whole (password, error, status) tuple.
TupleVal == "<tuple>"

\* "not password": None and the empty string are falsy.  FalsyNever is the
\* variant for which every value passes.
FalsyNever(v) == FALSE

Falsy(v) == v \in {Absent, ""}

\* Events
MessageEvent(m) == [type |-> "message", message |-> m]
OutputEvent(line) == [type |-> "output", output |-> Strip(line)]
CompletedEvent(ok, sid) == [type |-> "completed", success |-> ok, snapshot_id |-> sid]
ErrorEvent(m) == [type |-> "error", error |-> m]

IsTerminal(ev) == ev.type \in {"completed", "error"}

TypeOK ==
    /\ DOMAIN req = Slots
    /\ \A s \in Slots : pc[s] \in STRING
    /\ nreq \in Nat

\* Either the routes of backup.py serve a fresh installation, or the routes of
\* main.py serve a configuration in the schema main.py reads.
Init ==
    /\ \/ server = "backup" /\ config = DefaultConfig
       \/ server = "main" /\ config = LegacyConfig
    /\ password_store \in {<<>>, ("sched1" :> "pw1")}
    /\ backup_logs = <<>>
    /\ req = [s \in Slots |-> NoReq]
    /\ pc = [s \in Slots |-> "idle"]
    /\ loc = [s \in Slots |-> NoLoc]
    /\ gen = [s \in Slots |-> NoGen]
    /\ proc = [s \in Slots |-> NoProc]
    /\ events = [s \in Slots |-> <<>>]
    /\ resp = [s \in Slots |-> NoResp]
    /\ nreq = 0
    /\ crontab = <<>>
    /\ platform = "linux"

stores == <<config, password_store, backup_logs>>

\* The handler returns: the response is sent and the slot is finished.
Respond(s, r) ==
    /\ resp' = [resp EXCEPT ![s] = r]
    /\ pc' = [pc EXCEPT ![s] = "done"]


-----------------------------------------------------------------------------
(* POST /locations/<location_id>/backups, served by backup.create_backup:  *)
(* utils.extract_password_and_launch_backup                                *)

BackupRequest(l, h, k, t, p, c, f) ==
    [NoReq EXCEPT !.handler = "backup", !.location_id = l, !.header = h, !.key = k,
                  !.type = t, !.path = p, !.command = c, !.filename = f]

\* data.get('type', 'directory')
BackupType(r) == IF r.type = Absent THEN "directory" ELSE r.type

\* The token a backup registers in the known paths of its location.
SourceToken(r) ==
    IF BackupType(r) = "command" THEN r.command \o ":/" \o r.filename ELSE r.path

\* Lines 61-72: the password from the store (key) or from the header.
CreateBackup(s, r, lim) ==
    /\ server = "backup"
    /\ pc[s] = "idle"
    /\ nreq < lim
    /\ nreq' = nreq + 1
    /\ req' = [req EXCEPT ![s] = r]
    /\ LET password == IF ~Falsy(r.key) THEN get_password_from_key(r.key) ELSE r.header
       IN IF Falsy(password)
          THEN /\ Respond(s, ErrorResp(400))
               /\ UNCHANGED loc
          ELSE /\ loc' = [loc EXCEPT ![s].password = password]
               /\ pc' = [pc EXCEPT ![s] = "backup_load"]
               /\ UNCHANGED resp
    /\ UNCHANGED <<stores, gen, proc, events, server, crontab, platform>>

\* Lines 81-95: a directory backup, decided on the configuration c the handler
\* loaded; "save" carries the configuration to write.
\* ValidateDirectoryUnchecked is the variant without the os.path.exists test.
ValidateDirectoryUnchecked(c, r) ==
    IF r.path = Absent THEN [to |-> "400", cfg |-> c]
    ELSE IF ~HasField(c.locations[r.location_id], "repo_path")
         THEN [to |-> "500", cfg |-> c]
    ELSE IF AppendIfAbsent(c, r.location_id, r.path) # c
         THEN [to |-> "save", cfg |-> AppendIfAbsent(c, r.location_id, r.path)]
    ELSE [to |-> "stream", cfg |-> c]

ValidateDirectory(c, r) ==
    IF r.path = Absent THEN [to |-> "400", cfg |-> c]
    ELSE IF ~HasField(c.locations[r.location_id], "repo_path")
         THEN [to |-> "500", cfg |-> c]
    ELSE IF ~PathExists(r.path) THEN [to |-> "400", cfg |-> c]
    ELSE IF AppendIfAbsent(c, r.location_id, r.path) # c
         THEN [to |-> "save", cfg |-> AppendIfAbsent(c, r.location_id, r.path)]
    ELSE [to |-> "stream", cfg |-> c]

\* Lines 97-114: a command backup.
ValidateCommand(c, r) ==
    IF r.command = Absent \/ r.filename = Absent THEN [to |-> "400", cfg |-> c]
    ELSE IF ~HasField(c.locations[r.location_id], "repo_path")
         THEN [to |-> "500", cfg |-> c]
    ELSE IF AppendIfAbsent(c, r.location_id, SourceToken(r)) # c
         THEN [to |-> "save", cfg |-> AppendIfAbsent(c, r.location_id, SourceToken(r))]
    ELSE [to |-> "stream", cfg |-> c]

\* Lines 79-116: the dispatch on the backup type.
ValidateBackup(c, r) ==
    IF BackupType(r) = "directory" THEN ValidateDirectory(c, r)
    ELSE IF BackupType(r) = "command" THEN ValidateCommand(c, r)
    ELSE [to |-> "400", cfg |-> c]

\* Lines 74-116: load_config(), the location check and the validation; the
\* handler goes on to save_config (line 93 / 110) or straight to the Response.
BackupLoad(s) ==
    /\ pc[s] = "backup_load"
    /\ IF ~HasLocation(config, req[s].location_id)
       THEN /\ Respond(s, ErrorResp(404))
            /\ loc' = [loc EXCEPT ![s].cfg = config]
       ELSE LET v == ValidateBackup(config, req[s])
            IN  /\ loc' = [loc EXCEPT ![s].cfg = v.cfg]
                /\ CASE v.to = "400" -> Respond(s, ErrorResp(400))
                     [] v.to = "500" -> Respond(s, ErrorResp(500))
                     [] v.to = "save" ->
                           /\ pc' = [pc EXCEPT ![s] = "backup_save"]
                           /\ UNCHANGED resp
                     [] v.to = "stream" ->
                           /\ resp' = [resp EXCEPT ![s] = StreamResp]
                           /\ pc' = [pc EXCEPT ![s] = "stream_start"]
    /\ UNCHANGED <<stores, req, gen, proc, events, nreq, server, crontab, platform>>

\* The variant that appends the token to the configuration as it is at the
\* time of the write (read and written under one lock).
BackupSaveMerged(s) ==
    /\ pc[s] = "backup_save"
    /\ config' = IF HasLocation(config, req[s].location_id)
                 THEN AppendIfAbsent(config, req[s].location_id, SourceToken(req[s]))
                 ELSE loc[s].cfg
    /\ resp' = [resp EXCEPT ![s] = StreamResp]
    /\ pc' = [pc EXCEPT ![s] = "stream_start"]
    /\ UNCHANGED <<password_store, backup_logs, req, loc, gen, proc, events, nreq, server, crontab, platform>>

\* save_config(config) at line 93 / 110: the whole file is written from the
\* handler's copy; the handler then returns the streaming Response (line 124).
BackupSave(s) ==
    /\ pc[s] = "backup_save"
    /\ config' = loc[s].cfg
    /\ resp' = [resp EXCEPT ![s] = StreamResp]
    /\ pc' = [pc EXCEPT ![s] = "stream_start"]
    /\ UNCHANGED <<password_store, backup_logs, req, loc, gen, proc, events, nreq, server, crontab, platform>>


-----------------------------------------------------------------------------
(* The subprocess of a streaming request (subprocess.Popen with stdout and *)
(* stderr merged into one pipe).                                           *)

\* What the tool may print, by the command the handler runs.
BackupLines == {PlainLine, BlankLine, SavedLine("1a2b3c4d"), SavedLine("9f8e7d6c")}
JsonLines == {JsonSummaryLine("1a2b3c4d"), JsonStatusLine, BrokenJsonLine, BlankLine}
RestoreLines == {PlainLine}

LinesFor(handler) ==
    CASE handler = "backup" -> BackupLines
      [] handler = "main_backup" -> JsonLines
      [] OTHER -> RestoreLines

\* The smaller choice of lines used where two requests run concurrently.
FewLinesFor(handler) ==
    CASE handler = "backup" -> {SavedLine("1a2b3c4d")}
      [] handler = "main_backup" -> {JsonSummaryLine("1a2b3c4d")}
      [] OTHER -> RestoreLines

ExitCodes == {0, 1}

Alive(p) == p.st = "running"

\* process.poll() is None  =>  process.terminate()
Terminate(p) == IF Alive(p) THEN [p EXCEPT !.st = "exited", !.rc = -15, !.terminated = TRUE] ELSE p

\* No cleanup: the process is left as it is.
NoTerminate(p) == p

\* the subprocess prints a line
ProcWrite(s, n, rich) ==
    /\ Alive(proc[s])
    /\ Len(proc[s].out) < n
    /\ \E line \in (IF rich THEN LinesFor(req[s].handler) ELSE FewLinesFor(req[s].handler)) :
          proc' = [proc EXCEPT ![s].out = Append(@, line)]
    /\ UNCHANGED <<stores, req, pc, loc, gen, events, resp, nreq, server, crontab, platform>>

\* the subprocess exits
ProcExit(s) ==
    /\ Alive(proc[s])
    /\ \E rc \in ExitCodes : proc' = [proc EXCEPT ![s].st = "exited", ![s].rc = rc]
    /\ UNCHANGED <<stores, req, pc, loc, gen, events, resp, nreq, server, crontab, platform>>

\* readline() has a line to return / returns '' (end of file)
PipeHasLine(p) == p.rd < Len(p.out)
PipeAtEOF(p) == p.st = "exited" /\ p.rd = Len(p.out)

\* The line readline() returns: the oldest unread one.  NextLineNewest is the
\* variant that returns the newest line of the pipe.
NextLineNewest(p) == p.out[Len(p.out)]

NextLine(p) == p.out[p.rd + 1]

Emit(s, ev) == events' = [events EXCEPT ![s] = Append(@, ev)]

\* The generator is over: "returned", "raised" (an exception left it) or
\* "closed" (GeneratorExit at the yield it was suspended at); p is what has
\* become of its subprocess.
GenEnd(s, how, p) ==
    /\ gen' = [gen EXCEPT ![s].how = how]
    /\ proc' = [proc EXCEPT ![s] = p]
    /\ pc' = [pc EXCEPT ![s] = "done"]

Spawned == [NoProc EXCEPT !.st = "running"]

\* subprocess.Popen(cmd, env=env): the running tool with its arguments and the
\* variables the handler adds to the environment.
Launch(cmd, env_vars) == [Spawned EXCEPT !.cmd = cmd, !.env = env_vars]

\* A repository target as the string it is in an argument list.
RECURSIVE PathStr(_)
PathStr(segs) == IF segs = <<>> THEN "" ELSE "/" \o Head(segs) \o PathStr(Tail(segs))

\* utils.py line 118, backup.py line 267: env_vars = {'RESTIC_PASSWORD': password}.
\* EnvVarsNone is the variant that hands over no password.
EnvVarsNone(password) == <<>>

EnvVars(password) == [RESTIC_PASSWORD |-> password]

\* utils.py lines 95 and 113-114: the argument list of a backup (the commands
\* of the requests are single words, so split() yields one argument).
BackupCmd(c, r) ==
    LET repo_path == PathStr(c.locations[r.location_id].repo_path)
    IN  IF BackupType(r) = "command"
        THEN <<"restic", "backup", "--stdin", "--stdin-from-command", r.command,
               "--stdin-filename", r.filename, "--repo", repo_path, "--verbose">>
        ELSE <<"restic", "backup", r.path, "--repo", repo_path, "--verbose">>

\* backup.py line 263: the argument list of a restore.
RestoreCmd(c, r) ==
    <<"restic", "restore", r.backup_id, "--repo",
      PathStr(c.locations[r.location_id].repo_path), "--target", r.target, "--verbose=2">>

\* main.py lines 155-185: the argument list and the environment of a backup.
MainBackupCmd(r) ==
    IF r.type = "command"
    THEN <<"restic", "backup", "--stdin-from-command", r.command,
           "--stdin-filename", r.filename, "--json">>
    ELSE <<"restic", "backup", r.path, "--json">>

MainEnv(c, r, password) ==
    [RESTIC_REPOSITORY |-> c.locations[r.location_id].repository,
     RESTIC_PASSWORD |-> password]

\* Popen raised: there is no subprocess.
SpawnFailed == [NoProc EXCEPT !.st = "failed"]

-----------------------------------------------------------------------------
(* utils.generate_backup_stream, under event_stream of                     *)
(* extract_password_and_launch_backup                                      *)

\* finally: if process.poll() is None: process.terminate()
BackupFinally(p) == Terminate(p)

\* event_stream: yield "Starting backup..."
BackupStreamStart(s) ==
    /\ pc[s] = "stream_start" /\ req[s].handler = "backup"
    /\ Emit(s, MessageEvent("Starting backup..."))
    /\ pc' = [pc EXCEPT ![s] = "y_start"]
    /\ UNCHANGED <<stores, req, loc, gen, proc, resp, nreq, server, crontab, platform>>

\* Line 131: execute_restic_command(cmd, env_vars, stream_output=True), before
\* the try: Popen starts the tool, or raises (the binary is missing) and the
\* exception leaves the generator.
BackupSpawn(s) ==
    /\ pc[s] = "y_start" /\ req[s].handler = "backup"
    /\ \/ /\ proc' = [proc EXCEPT ![s] = Launch(BackupCmd(loc[s].cfg, req[s]),
                                                EnvVars(loc[s].password))]
          /\ pc' = [pc EXCEPT ![s] = "reading"]
          /\ UNCHANGED gen
       \/ GenEnd(s, "raised", SpawnFailed)
    /\ UNCHANGED <<stores, req, loc, events, resp, nreq, server, crontab, platform>>

\* Lines 137-140: one line read, collected and yielded as an output event.
Collect(lines, line) == Append(lines, line)

BackupReadLine(s) ==
    /\ pc[s] = "reading" /\ req[s].handler = "backup"
    /\ PipeHasLine(proc[s])
    /\ LET line == NextLine(proc[s])
       IN  /\ gen' = [gen EXCEPT ![s].output_lines = Collect(@, line)]
           /\ Emit(s, OutputEvent(line))
    /\ proc' = [proc EXCEPT ![s].rd = @ + 1]
    /\ pc' = [pc EXCEPT ![s] = "y_out"]
    /\ UNCHANGED <<stores, req, loc, resp, nreq, server, crontab, platform>>

\* Lines 143-146, when the generator is resumed after the yield.
BackupResume(s) ==
    /\ pc[s] = "y_out" /\ req[s].handler = "backup"
    /\ LET line == gen[s].output_lines[Len(gen[s].output_lines)]
       IN  gen' = [gen EXCEPT ![s].snapshot_id = ExtractSnapshotId(line, @)]
    /\ pc' = [pc EXCEPT ![s] = "reading"]
    /\ UNCHANGED <<stores, req, loc, proc, events, resp, nreq, server, crontab, platform>>

\* Lines 159-160: readline raises (bytes that do not decode); the error is yielded.
BackupReadFault(s) ==
    /\ pc[s] = "reading" /\ req[s].handler = "backup"
    /\ PipeHasLine(proc[s])
    /\ Emit(s, ErrorEvent("read"))
    /\ pc' = [pc EXCEPT ![s] = "y_err"]
    /\ UNCHANGED <<stores, req, loc, gen, proc, resp, nreq, server, crontab, platform>>

\* The condition without the exit code.
ShouldSaveLogAnyExit(g, p) == g.snapshot_id # NoneId

\* Line 151: the condition under which the log is written.
ShouldSaveLog(g, p) == g.snapshot_id # NoneId /\ p.rc = 0

\* Lines 152-155: the file <snapshot_id>.txt written with writelines(output_lines).
\* SaveLogStripped is the variant that writes the lines as the events carry them.
SaveLogStripped(logs, g) ==
    (g.snapshot_id :> Concat([i \in 1..Len(g.output_lines) |-> Strip(g.output_lines[i])])) @@ logs

SaveLog(logs, g) == (g.snapshot_id :> Concat(g.output_lines)) @@ logs

\* Lines 148-155: end of file, process.wait(), and the log file.
BackupEOF(s) ==
    /\ pc[s] = "reading" /\ req[s].handler = "backup"
    /\ PipeAtEOF(proc[s])
    /\ \/ /\ backup_logs' = IF ShouldSaveLog(gen[s], proc[s])
                            THEN SaveLog(backup_logs, gen[s])
                            ELSE backup_logs
          /\ pc' = [pc EXCEPT ![s] = "emit_term"]
          /\ UNCHANGED events
       \/ /\ ShouldSaveLog(gen[s], proc[s])          \* makedirs / open raises
          /\ Emit(s, ErrorEvent("log"))
          /\ pc' = [pc EXCEPT ![s] = "y_err"]
          /\ UNCHANGED backup_logs
    /\ UNCHANGED <<config, password_store, req, loc, gen, proc, resp, nreq, server, crontab, platform>>

\* Line 157: the terminal event.
BackupCompleted(s) ==
    /\ pc[s] = "emit_term" /\ req[s].handler = "backup"
    /\ Emit(s, CompletedEvent(proc[s].rc = 0, gen[s].snapshot_id))
    /\ pc' = [pc EXCEPT ![s] = "y_term"]
    /\ UNCHANGED <<stores, req, loc, gen, proc, resp, nreq, server, crontab, platform>>

YieldPoints == {"y_start", "y_r1", "y_r2", "y_out", "y_term", "y_err"}

\* The generator is resumed after its last yield and runs to its end.
BackupReturn(s) ==
    /\ pc[s] \in {"y_term", "y_err"} /\ req[s].handler = "backup"
    /\ GenEnd(s, "returned", BackupFinally(proc[s]))
    /\ UNCHANGED <<stores, req, loc, events, resp, nreq, server, crontab, platform>>

\* The caller disconnects: the server closes the generator at its yield.
BackupClose(s) ==
    /\ pc[s] \in YieldPoints /\ req[s].handler = "backup"
    /\ GenEnd(s, "closed", BackupFinally(proc[s]))
    /\ UNCHANGED <<stores, req, loc, events, resp, nreq, server, crontab, platform>>

\* The slot is free for the next request.
Reset(s) ==
    /\ pc[s] = "done"
    /\ req' = [req EXCEPT ![s] = NoReq]
    /\ pc' = [pc EXCEPT ![s] = "idle"]
    /\ loc' = [loc EXCEPT ![s] = NoLoc]
    /\ gen' = [gen EXCEPT ![s] = NoGen]
    /\ proc' = [proc EXCEPT ![s] = NoProc]
    /\ events' = [events EXCEPT ![s] = <<>>]
    /\ resp' = [resp EXCEPT ![s] = NoResp]
    /\ UNCHANGED <<stores, nreq, server, crontab, platform>>


-----------------------------------------------------------------------------
(* POST /locations: backup.init_location                                   *)

InitRequest(target, password) ==
    [NoReq EXCEPT !.handler = "init", !.location = target, !.password = password]

\* Line 64: the location id is the last segment of the repository target.
\* LocationIdUnstripped is the variant that leaves a trailing '/' in place.
LocationIdUnstripped(target) == Basename(target)

LocationId(target) == Basename(RStripSlash(target))

\* The variant that does not look at the exit code.
InitSucceededAlways(ran) == TRUE

\* Lines 55-56: result.returncode != 0 is answered 500.
InitSucceeded(ran) == ran = "ok"

\* Lines 38-56: the checks of the request and the run of "restic init", which
\* exits 0 ("ok"), or exits nonzero or cannot be started ("failed").
InitLocation(s, r, lim) ==
    /\ server = "backup"
    /\ pc[s] = "idle"
    /\ nreq < lim
    /\ nreq' = nreq + 1
    /\ req' = [req EXCEPT ![s] = r]
    /\ IF r.location = <<>> \/ r.password = Absent
       THEN Respond(s, ErrorResp(400)) /\ UNCHANGED loc
       ELSE IF ~DirExists(r.location)
       THEN Respond(s, ErrorResp(400)) /\ UNCHANGED loc
       ELSE \E ran \in {"ok", "failed"} :
               /\ loc' = [loc EXCEPT ![s].ran = ran]
               /\ IF InitSucceeded(ran)
                  THEN /\ pc' = [pc EXCEPT ![s] = "init_load"]
                       /\ UNCHANGED resp
                  ELSE Respond(s, ErrorResp(500))
    /\ UNCHANGED <<stores, gen, proc, events, server, crontab, platform>>

\* Lines 59-68: load_config() and the new mapping of the location id.
InitLoad(s) ==
    /\ pc[s] = "init_load"
    /\ loc' = [loc EXCEPT ![s].cfg =
                 [config EXCEPT !.locations =
                     (LocationId(req[s].location) :> NewLocation(req[s].location)) @@ @]]
    /\ pc' = [pc EXCEPT ![s] = "init_save"]
    /\ UNCHANGED <<stores, req, gen, proc, events, resp, nreq, server, crontab, platform>>

\* Lines 69-75: save_config(config) and the answer.
InitSave(s) ==
    /\ pc[s] = "init_save"
    /\ config' = loc[s].cfg
    /\ Respond(s, [status |-> 200, body |-> "json"])
    /\ UNCHANGED <<password_store, backup_logs, req, loc, gen, proc, events, nreq, server, crontab, platform>>

-----------------------------------------------------------------------------
(* GET /locations/<location_id>/backups/<backup_id>:                       *)
(* backup.list_backup_contents, with is_logs=1 (handler "logs") and        *)
(* without (handler "contents"); GET /locations/<location_id>/backups:     *)
(* backup.list_backups (handler "snapshots")                               *)

LogsRequest(l, h, id) ==
    [NoReq EXCEPT !.handler = "logs", !.location_id = l, !.header = h, !.backup_id = id]

ContentsRequest(l, h, id) ==
    [NoReq EXCEPT !.handler = "contents", !.location_id = l, !.header = h, !.backup_id = id]

SnapshotsRequest(l, h) ==
    [NoReq EXCEPT !.handler = "snapshots", !.location_id = l, !.header = h]

NoLogsFound == <<"No logs found for this backup">>

\* Lines 125-131: the password header and the location check.
ListBackupContents(s, r, lim) ==
    /\ server = "backup"
    /\ pc[s] = "idle"
    /\ nreq < lim
    /\ nreq' = nreq + 1
    /\ req' = [req EXCEPT ![s] = r]
    /\ IF Falsy(r.header) THEN Respond(s, ErrorResp(400))
       ELSE IF ~HasLocation(config, r.location_id) THEN Respond(s, ErrorResp(404))
       ELSE /\ pc' = [pc EXCEPT ![s] = IF r.handler = "logs" THEN "logs_read"
                                                             ELSE "contents_run"]
            /\ UNCHANGED resp
    /\ UNCHANGED <<stores, loc, gen, proc, events, server, crontab, platform>>

\* Lines 138-144: the content of the log file, or the placeholder.
ReadLogs(logs, id) == IF id \in DOMAIN logs THEN logs[id] ELSE NoLogsFound

\* LogsReadOnce is the variant that removes the log it has returned.
LogsReadOnce(s) ==
    /\ pc[s] = "logs_read"
    /\ Respond(s, [status |-> 200, body |-> "logs", logs |-> ReadLogs(backup_logs, req[s].backup_id)])
    /\ backup_logs' = [id \in DOMAIN backup_logs \ {req[s].backup_id} |-> backup_logs[id]]
    /\ UNCHANGED <<config, password_store, req, loc, gen, proc, events, nreq, server, crontab, platform>>

LogsRead(s) ==
    /\ pc[s] = "logs_read"
    /\ Respond(s, [status |-> 200, body |-> "logs", logs |-> ReadLogs(backup_logs, req[s].backup_id)])
    /\ UNCHANGED <<stores, req, loc, gen, proc, events, nreq, server, crontab, platform>>

\* What a tool run to its end by subprocess.run gives the handler: it exits 0
\* with one of the outputs, it exits nonzero, or it cannot be run (raised).
ToolResults(outputs) ==
    {[ran |-> "ok", stdout |-> o] : o \in outputs}
        \cup {[ran |-> "failed", stdout |-> <<>>], [ran |-> "raised", stdout |-> <<>>]}

\* json.loads(line): the value of a line that parses.
Loads(line) == Strip(line)

UnknownNode(line) == [path |-> line, type |-> "unknown"]

\* main.py lines 277-285: every line that is not empty gives an element, the
\* parsed value or, for a line that does not parse, a node of unknown type.
RECURSIVE MainContentsOf(_)
MainContentsOf(lines) ==
    IF lines = <<>> THEN <<>>
    ELSE LET line == Head(lines)
         IN  (IF line = <<>> THEN <<>>
              ELSE IF IsJson(Strip(line)) THEN <<Loads(line)>>
              ELSE <<UnknownNode(line)>>) \o MainContentsOf(Tail(lines))

MainParseContents(output) == MainContentsOf(SplitLines(Strip(output)))

\* backup.py lines 163-170: the lines that are not empty and parse, as their
\* parsed values; json.JSONDecodeError is passed over.
RECURSIVE ContentsOf(_)
ContentsOf(lines) ==
    IF lines = <<>> THEN <<>>
    ELSE LET line == Head(lines)
         IN  (IF line # <<>> /\ IsJson(Strip(line)) THEN <<Loads(line)>> ELSE <<>>)
                 \o ContentsOf(Tail(lines))

\* The variant that keeps a line that does not parse, as main.py would.
ParseContentsKeeping(output) == MainParseContents(output)

ParseContents(output) == ContentsOf(SplitLines(Strip(output)))

\* Lines 147-175: "restic ls" is run to its end; a nonzero exit code or an
\* exception is answered 500, otherwise the parsed lines are returned.
ContentsRun(s, listings) ==
    /\ pc[s] = "contents_run"
    /\ \E res \in ToolResults(listings) :
          /\ loc' = [loc EXCEPT ![s].ran = res.ran, ![s].stdout = res.stdout]
          /\ IF res.ran = "ok"
             THEN Respond(s, [status |-> 200, body |-> "contents",
                              contents |-> ParseContents(res.stdout)])
             ELSE Respond(s, ErrorResp(500))
    /\ UNCHANGED <<stores, req, gen, proc, events, nreq, server, crontab, platform>>

\* Lines 84-90 of list_backups: the password header and the location check.
ListBackups(s, r, lim) ==
    /\ server = "backup"
    /\ pc[s] = "idle"
    /\ nreq < lim
    /\ nreq' = nreq + 1
    /\ req' = [req EXCEPT ![s] = r]
    /\ IF Falsy(r.header) THEN Respond(s, ErrorResp(400))
       ELSE IF ~HasLocation(config, r.location_id) THEN Respond(s, ErrorResp(404))
       ELSE /\ pc' = [pc EXCEPT ![s] = "snapshots_run"]
            /\ UNCHANGED resp
    /\ UNCHANGED <<stores, loc, gen, proc, events, server, crontab, platform>>

\* The variant that takes every line with a token for a snapshot.
IsRowAny(parts) == Len(parts) >= 1

\* Line 18: len(parts) >= 4
IsRow(parts) == Len(parts) >= 4

\* Lines 19-28: the record of a line; a slice never raises.
SnapshotRecord(parts) ==
    [snapshot_id |-> parts[1],
     date |-> SubSeq(parts, 2, Min2(3, Len(parts))),
     size |-> SubSeq(parts, 5, Min2(6, Len(parts)))]

IsSnapshotLine(line) == Strip(line) # <<>> /\ IsRow(Split(line))

\* backup.parse_snapshots_output (lines 10-30): the output is stripped and
\* split into lines, the first two are skipped, and every other line that is
\* not blank and has four tokens or more gives a record.
parse_snapshots_output(output) ==
    LET lines == SplitLines(Strip(output))
        rows == SelectSeq(SubSeq(lines, 3, Len(lines)), IsSnapshotLine)
    IN  [i \in 1..Len(rows) |-> SnapshotRecord(Split(rows[i]))]

\* Lines 92-110: "restic snapshots" is run to its end; a nonzero exit code or
\* an exception is answered 500, otherwise the parsed table is returned.
SnapshotsRun(s, tables) ==
    /\ pc[s] = "snapshots_run"
    /\ \E res \in ToolResults(tables) :
          /\ loc' = [loc EXCEPT ![s].ran = res.ran, ![s].stdout = res.stdout]
          /\ IF res.ran = "ok"
             THEN Respond(s, [status |-> 200, body |-> "snapshots",
                              snapshots |-> parse_snapshots_output(res.stdout)])
             ELSE Respond(s, ErrorResp(500))
    /\ UNCHANGED <<stores, req, gen, proc, events, nreq, server, crontab, platform>>


-----------------------------------------------------------------------------
(* POST /locations/<location_id>/backups/<backup_id>/restore:              *)
(* backup.restore_backup, count_files_in_snapshot, generate_restore_stream *)

RestoreRequest(l, h, id, target) ==
    [NoReq EXCEPT !.handler = "restore", !.location_id = l, !.header = h,
                  !.backup_id = id, !.target = target]

MaxFiles == 3        \* largest file count the listing of a snapshot reports
RestoreMaxFiles == 10   \* the same, in the behaviours of RestoreSeqSpec
RestoreMaxLines == 100  \* lines a restore writes in one behaviour of RestoreSeqSpec
RestoreSeqMaxReq == 2   \* requests accepted in one behaviour of RestoreSeqSpec

\* Lines 247-283: the checks of the request; the Response carries the generator.
RestoreBackup(s, r, lim) ==
    /\ server = "backup"
    /\ pc[s] = "idle"
    /\ nreq < lim
    /\ nreq' = nreq + 1
    /\ req' = [req EXCEPT ![s] = r]
    /\ IF Falsy(r.header) THEN Respond(s, ErrorResp(400)) /\ UNCHANGED loc
       ELSE IF ~HasLocation(config, r.location_id)
            THEN Respond(s, ErrorResp(404)) /\ UNCHANGED loc
       ELSE IF r.target = Absent THEN Respond(s, ErrorResp(400)) /\ UNCHANGED loc
       ELSE IF ~HasField(config.locations[r.location_id], "repo_path")
            THEN Respond(s, ErrorResp(500)) /\ UNCHANGED loc
       ELSE /\ loc' = [loc EXCEPT ![s].password = r.header, ![s].cfg = config]
            /\ resp' = [resp EXCEPT ![s] = StreamResp]
            /\ pc' = [pc EXCEPT ![s] = "stream_start"]
    /\ UNCHANGED <<stores, gen, proc, events, server, crontab, platform>>

\* finally: if process.poll() is None: process.terminate()
RestoreFinally(p) == Terminate(p)

\* Line 270: yield "Starting restore..."
RestoreStreamStart(s) ==
    /\ pc[s] = "stream_start" /\ req[s].handler = "restore"
    /\ Emit(s, MessageEvent("Starting restore..."))
    /\ pc' = [pc EXCEPT ![s] = "y_r1"]
    /\ UNCHANGED <<stores, req, loc, gen, proc, resp, nreq, server, crontab, platform>>

\* Line 273: yield "Counting files in snapshot..."
RestoreCounting(s) ==
    /\ pc[s] = "y_r1" /\ req[s].handler = "restore"
    /\ Emit(s, MessageEvent("Counting files in snapshot..."))
    /\ pc' = [pc EXCEPT ![s] = "y_r2"]
    /\ UNCHANGED <<stores, req, loc, gen, proc, resp, nreq, server, crontab, platform>>

\* The same with a failed count reported as one file.
CountFilesGuess(max) ==
    {[failed |-> FALSE, n |-> k] : k \in 0..max} \cup {[failed |-> TRUE, n |-> 1]}

\* count_files_in_snapshot: the number of non-blank lines of "restic ls" when it
\* exits 0; 0 when it exits nonzero or cannot be run (failed).
CountFiles(max) ==
    {[failed |-> FALSE, n |-> k] : k \in 0..max} \cup {[failed |-> TRUE, n |-> 0]}

\* Lines 274-279: the count and the message that reports it.
RestoreCount(s, max) ==
    /\ pc[s] = "y_r2" /\ req[s].handler = "restore"
    /\ \E c \in CountFiles(max) :
          /\ gen' = [gen EXCEPT ![s].total_files = c.n, ![s].count_failed = c.failed]
          /\ Emit(s, MessageEvent(IF c.n > 0 THEN "Found files" ELSE "file count unavailable"))
    /\ pc' = [pc EXCEPT ![s] = "y_start"]
    /\ UNCHANGED <<stores, req, loc, proc, resp, nreq, server, crontab, platform>>

\* Line 194: Popen before the try, as in generate_backup_stream.
RestoreSpawn(s) ==
    /\ pc[s] = "y_start" /\ req[s].handler = "restore"
    /\ \/ /\ proc' = [proc EXCEPT ![s] = Launch(RestoreCmd(loc[s].cfg, req[s]),
                                                EnvVars(loc[s].password))]
          /\ pc' = [pc EXCEPT ![s] = "reading"]
          /\ UNCHANGED gen
       \/ GenEnd(s, "raised", SpawnFailed)
    /\ UNCHANGED <<stores, req, loc, events, resp, nreq, server, crontab, platform>>

\* The percentage without the cap.
ProgressUncapped(processed, total) == (processed * 100) \div total

\* Line 206: min(int((processed_files / total_files) * 100), 100).  The float
\* quotient truncates to the integer quotient for every file count below 50
\* and, once capped, for every count the bounds allow.
Progress(processed, total) == Min2((processed * 100) \div total, 100)

ProgressEvent(p, processed, total) ==
    [type |-> "progress", progress |-> p, processed |-> processed, total |-> total]

ProcessedEvent(processed) == [type |-> "processed", processed |-> processed]

\* Lines 200-215: one line read; a progress event is yielded for a new multiple
\* of 5 (with a file count) or for every 100th line (without).
RestoreReadLine(s) ==
    /\ pc[s] = "reading" /\ req[s].handler = "restore"
    /\ PipeHasLine(proc[s])
    /\ proc' = [proc EXCEPT ![s].rd = @ + 1]
    /\ gen' = [gen EXCEPT ![s].processed_files = @ + 1]
    /\ LET n == gen[s].processed_files + 1
           total == gen[s].total_files
       IN  IF total > 0
           THEN IF Progress(n, total) # gen[s].last_progress /\ Progress(n, total) % 5 = 0
                THEN /\ Emit(s, ProgressEvent(Progress(n, total), n, total))
                     /\ pc' = [pc EXCEPT ![s] = "y_out"]
                ELSE UNCHANGED <<events, pc>>
           ELSE IF n % 100 = 0
                THEN /\ Emit(s, ProcessedEvent(n))
                     /\ pc' = [pc EXCEPT ![s] = "y_out"]
                ELSE UNCHANGED <<events, pc>>
    /\ UNCHANGED <<stores, req, loc, resp, nreq, server, crontab, platform>>

\* The variant that does not remember the percentage it reported.
RestoreResumeStale(s) ==
    /\ pc[s] = "y_out" /\ req[s].handler = "restore"
    /\ pc' = [pc EXCEPT ![s] = "reading"]
    /\ UNCHANGED <<stores, req, loc, gen, proc, events, resp, nreq, server, crontab, platform>>

\* Line 211: last_progress = progress, when the generator is resumed.
RestoreResume(s) ==
    /\ pc[s] = "y_out" /\ req[s].handler = "restore"
    /\ gen' = [gen EXCEPT ![s].last_progress =
                 IF gen[s].total_files > 0
                 THEN Progress(gen[s].processed_files, gen[s].total_files)
                 ELSE @]
    /\ pc' = [pc EXCEPT ![s] = "reading"]
    /\ UNCHANGED <<stores, req, loc, proc, events, resp, nreq, server, crontab, platform>>

\* Lines 237-238: an exception while streaming is yielded as an error event.
RestoreReadFault(s) ==
    /\ pc[s] = "reading" /\ req[s].handler = "restore"
    /\ PipeHasLine(proc[s])
    /\ Emit(s, ErrorEvent("read"))
    /\ pc' = [pc EXCEPT ![s] = "y_err"]
    /\ UNCHANGED <<stores, req, loc, gen, proc, resp, nreq, server, crontab, platform>>

\* Lines 226-228: the restore target joins restored_paths if it is not there.
AddRestoredPath(c, target) ==
    IF InSeq(target, c.restored_paths)
    THEN c
    ELSE [c EXCEPT !.restored_paths = Append(@, target)]

\* Lines 217-229: end of file, process.wait(), and after exit code 0 the
\* load_config() of the restored paths.
RestoreEOF(s) ==
    /\ pc[s] = "reading" /\ req[s].handler = "restore"
    /\ PipeAtEOF(proc[s])
    /\ IF proc[s].rc = 0 /\ AddRestoredPath(config, req[s].target) # config
       THEN /\ loc' = [loc EXCEPT ![s].cfg = AddRestoredPath(config, req[s].target)]
            /\ pc' = [pc EXCEPT ![s] = "restore_save"]
       ELSE /\ pc' = [pc EXCEPT ![s] = "emit_term"]
            /\ UNCHANGED loc
    /\ UNCHANGED <<stores, req, gen, proc, events, resp, nreq, server, crontab, platform>>

\* Line 229: save_config(config)
RestoreSave(s) ==
    /\ pc[s] = "restore_save"
    /\ config' = loc[s].cfg
    /\ pc' = [pc EXCEPT ![s] = "emit_term"]
    /\ UNCHANGED <<password_store, backup_logs, req, loc, gen, proc, events, resp, nreq, server, crontab, platform>>

\* Lines 233 / 235: the terminal event.
RestoreCompleted(s) ==
    /\ pc[s] = "emit_term" /\ req[s].handler = "restore"
    /\ Emit(s, IF proc[s].rc = 0
               THEN [type |-> "completed", success |-> TRUE,
                     browse_link |-> req[s].target,
                     total_processed |-> gen[s].processed_files]
               ELSE [type |-> "completed", success |-> FALSE])
    /\ pc' = [pc EXCEPT ![s] = "y_term"]
    /\ UNCHANGED <<stores, req, loc, gen, proc, resp, nreq, server, crontab, platform>>

RestoreReturn(s) ==
    /\ pc[s] \in {"y_term", "y_err"} /\ req[s].handler = "restore"
    /\ GenEnd(s, "returned", RestoreFinally(proc[s]))
    /\ UNCHANGED <<stores, req, loc, events, resp, nreq, server, crontab, platform>>

RestoreClose(s) ==
    /\ pc[s] \in YieldPoints /\ req[s].handler = "restore"
    /\ GenEnd(s, "closed", RestoreFinally(proc[s]))
    /\ UNCHANGED <<stores, req, loc, events, resp, nreq, server, crontab, platform>>


-----------------------------------------------------------------------------
(* The routes of main.py: create_backup / generate_backup_stream and       *)
(* restore_backup / generate_restore_stream                                *)

MainBackupRequest(l, h, k, t, p) ==
    [NoReq EXCEPT !.handler = "main_backup", !.location_id = l, !.header = h,
                  !.key = k, !.type = t, !.path = p]

MainRestoreRequest(l, h, id) ==
    [NoReq EXCEPT !.handler = "main_restore", !.location_id = l, !.header = h,
                  !.backup_id = id]

MainContentsRequest(l, h, id) ==
    [NoReq EXCEPT !.handler = "main_contents", !.location_id = l, !.header = h,
                  !.backup_id = id]

\* main.list_backup_contents (lines 260-290): the location check, the password
\* (the tuple of get_password_from_header, never falsy), and "restic ls" run by
\* main.execute_restic_command, where subprocess.run raises for a password
\* that is no string; every exception is answered 500.
MainListBackupContents(s, r, lim, listings) ==
    /\ server = "main"
    /\ pc[s] = "idle"
    /\ nreq < lim
    /\ nreq' = nreq + 1
    /\ req' = [req EXCEPT ![s] = r]
    /\ LET password == TupleVal
       IN  IF ~HasLocation(config, r.location_id)
           THEN Respond(s, ErrorResp(404)) /\ UNCHANGED loc
           ELSE IF Falsy(password)
           THEN Respond(s, ErrorResp(400)) /\ UNCHANGED loc
           ELSE IF ~HasField(config.locations[r.location_id], "repository")
                   \/ password = TupleVal
           THEN /\ Respond(s, ErrorResp(500))
                /\ loc' = [loc EXCEPT ![s].ran = "raised"]
           ELSE \E res \in ToolResults(listings) :
                   /\ loc' = [loc EXCEPT ![s].ran = res.ran, ![s].stdout = res.stdout]
                   /\ IF res.ran = "ok"
                      THEN Respond(s, [status |-> 200, body |-> "contents",
                                       contents |-> MainParseContents(res.stdout)])
                      ELSE Respond(s, ErrorResp(500))
    /\ UNCHANGED <<stores, gen, proc, events, server, crontab, platform>>

\* main.py has no finally: the subprocess is left as it is.
MainFinally(p) == NoTerminate(p)

\* Lines 230-232 (create_backup) and 352-354 (restore_backup): load_config()
\* and the location check.
MainRequest(s, r, lim) ==
    /\ server = "main"
    /\ pc[s] = "idle"
    /\ nreq < lim
    /\ nreq' = nreq + 1
    /\ req' = [req EXCEPT ![s] = r]
    /\ IF ~HasLocation(config, r.location_id)
       THEN Respond(s, ErrorResp(404))
       ELSE /\ pc' = [pc EXCEPT ![s] = "main_password"]
            /\ UNCHANGED resp
    /\ UNCHANGED <<stores, loc, gen, proc, events, server, crontab, platform>>

\* Lines 237-245 and 357-360: the password.  With a key it is the entry of the
\* password store; without one it is the tuple get_password_from_header()
\* returns, which is never falsy.
MainPassword(s) ==
    /\ pc[s] = "main_password"
    /\ LET password == IF req[s].handler = "main_backup" /\ req[s].key # Absent
                       THEN get_password_from_key(req[s].key)
                       ELSE TupleVal
       IN IF Falsy(password)
          THEN Respond(s, ErrorResp(400)) /\ UNCHANGED loc
          ELSE /\ loc' = [loc EXCEPT ![s].password = password]
               /\ resp' = [resp EXCEPT ![s] = StreamResp]
               /\ pc' = [pc EXCEPT ![s] = "stream_start"]
    /\ UNCHANGED <<stores, req, gen, proc, events, nreq, server, crontab, platform>>

\* Lines 150-196 of generate_backup_stream, inside its try: the configuration,
\* the path check of a directory backup, the environment and Popen.  Popen
\* raises for a password that is no string and for a missing binary; every
\* exception is yielded as an error event (lines 223-224).
MainBackupStart(s) ==
    /\ pc[s] = "stream_start" /\ req[s].handler = "main_backup"
    /\ IF ~HasLocation(config, req[s].location_id)
       THEN Emit(s, ErrorEvent("KeyError")) /\ pc' = [pc EXCEPT ![s] = "y_err"] /\ UNCHANGED proc
       ELSE IF req[s].type # "command" /\ ~PathExists(req[s].path)
       THEN Emit(s, ErrorEvent("Path does not exist")) /\ pc' = [pc EXCEPT ![s] = "y_err"]
            /\ UNCHANGED proc
       ELSE IF ~HasField(config.locations[req[s].location_id], "repository")
       THEN Emit(s, ErrorEvent("KeyError")) /\ pc' = [pc EXCEPT ![s] = "y_err"] /\ UNCHANGED proc
       ELSE IF loc[s].password = TupleVal
       THEN Emit(s, ErrorEvent("TypeError")) /\ pc' = [pc EXCEPT ![s] = "y_err"] /\ UNCHANGED proc
       ELSE \/ /\ proc' = [proc EXCEPT ![s] = Launch(MainBackupCmd(req[s]),
                                                   MainEnv(config, req[s], loc[s].password))]
               /\ pc' = [pc EXCEPT ![s] = "reading"]
               /\ UNCHANGED events
            \/ /\ Emit(s, ErrorEvent("FileNotFoundError"))
               /\ pc' = [pc EXCEPT ![s] = "y_err"]
               /\ proc' = [proc EXCEPT ![s] = SpawnFailed]
    /\ UNCHANGED <<stores, req, loc, gen, resp, nreq, server, crontab, platform>>

IsSummary(stripped) == IsJson(stripped) /\ Len(stripped) >= 3 /\ stripped[2] = "summary"

DataEvent(stripped) == [type |-> "data", data |-> stripped]
TextEvent(stripped) == [type |-> "message", message |-> stripped]

\* Lines 202-215: one line read; a blank line yields nothing, a JSON line is
\* yielded as it is (the summary sets snapshot_id and success), any other line
\* as a message.
MainBackupReadLine(s) ==
    /\ pc[s] = "reading" /\ req[s].handler = "main_backup"
    /\ PipeHasLine(proc[s])
    /\ proc' = [proc EXCEPT ![s].rd = @ + 1]
    /\ LET stripped == Strip(NextLine(proc[s]))
       IN  IF stripped = <<>> THEN UNCHANGED <<gen, events, pc>>
           ELSE /\ gen' = IF IsSummary(stripped)
                          THEN [gen EXCEPT ![s].snapshot_id = stripped[3], ![s].success = TRUE]
                          ELSE gen
                /\ Emit(s, IF IsJson(stripped) THEN DataEvent(stripped) ELSE TextEvent(stripped))
                /\ pc' = [pc EXCEPT ![s] = "y_out"]
    /\ UNCHANGED <<stores, req, loc, resp, nreq, server, crontab, platform>>

MainBackupResume(s) ==
    /\ pc[s] = "y_out" /\ req[s].handler = "main_backup"
    /\ pc' = [pc EXCEPT ![s] = "reading"]
    /\ UNCHANGED <<stores, req, loc, gen, proc, events, resp, nreq, server, crontab, platform>>

\* Lines 223-224: an exception while streaming is yielded as an error event.
MainBackupReadFault(s) ==
    /\ pc[s] = "reading" /\ req[s].handler = "main_backup"
    /\ PipeHasLine(proc[s])
    /\ Emit(s, ErrorEvent("read"))
    /\ pc' = [pc EXCEPT ![s] = "y_err"]
    /\ UNCHANGED <<stores, req, loc, gen, proc, resp, nreq, server, crontab, platform>>

\* Line 221: the success flag of the terminal event.
MainSuccess(g, p) == g.success

\* Lines 218-221: process.wait() and the terminal event.
MainBackupCompleted(s) ==
    /\ pc[s] = "reading" /\ req[s].handler = "main_backup"
    /\ PipeAtEOF(proc[s])
    /\ Emit(s, CompletedEvent(MainSuccess(gen[s], proc[s]), gen[s].snapshot_id))
    /\ pc' = [pc EXCEPT ![s] = "y_term"]
    /\ UNCHANGED <<stores, req, loc, gen, proc, resp, nreq, server, crontab, platform>>

\* Lines 296-329 of generate_restore_stream, inside its try: the password is
\* the tuple, so Popen raises and the error is yielded (lines 345-346).
MainRestoreStart(s) ==
    /\ pc[s] = "stream_start" /\ req[s].handler = "main_restore"
    /\ Emit(s, ErrorEvent(IF HasLocation(config, req[s].location_id)
                             /\ HasField(config.locations[req[s].location_id], "repository")
                          THEN "TypeError" ELSE "KeyError"))
    /\ pc' = [pc EXCEPT ![s] = "y_err"]
    /\ UNCHANGED <<stores, req, loc, gen, proc, resp, nreq, server, crontab, platform>>

MainReturn(s) ==
    /\ pc[s] \in {"y_term", "y_err"} /\ req[s].handler \in {"main_backup", "main_restore"}
    /\ GenEnd(s, "returned", MainFinally(proc[s]))
    /\ UNCHANGED <<stores, req, loc, events, resp, nreq, server, crontab, platform>>

MainClose(s) ==
    /\ pc[s] \in YieldPoints /\ req[s].handler \in {"main_backup", "main_restore"}
    /\ GenEnd(s, "closed", MainFinally(proc[s]))
    /\ UNCHANGED <<stores, req, loc, events, resp, nreq, server, crontab, platform>>


-----------------------------------------------------------------------------
(* The schedules: schedule.create_backup_schedule, list_backup_schedules,  *)
(* delete_backup_schedule, get_cron_expression, create_cron_job and        *)
(* remove_scheduled_job                                                    *)

\* A time string is the sequence of its parts between ':'; a part is a decimal
\* number or some other text.
Num(n) == [digits |-> TRUE, value |-> n]
Text == [digits |-> FALSE, value |-> 0]
TimeStr(h, m) == <<Num(h), Num(m)>>

\* Line 15: hour, minute = map(int, time_str.split(':')) succeeds for exactly
\* two parts that are numbers.
TimeParses(time_str) ==
    Len(time_str) = 2 /\ \A i \in 1..2 : time_str[i].digits

Frequencies == {"daily", "weekly", "monthly"}

\* Lines 11-32: the list get_cron_expression returns, or the ValueError it
\* raises.  WeeklyAnyDay is the variant whose weekly expression leaves the day
\* of the week open.
WeeklyAnyDay(hour, minute) == <<hour, minute, "*", "*", "*">>

Weekly(hour, minute) == <<hour, minute, "*", "*", "0">>

get_cron_expression(frequency, time_str) ==
    IF ~TimeParses(time_str) THEN [ok |-> FALSE, output |-> <<>>]
    ELSE LET hour == time_str[1].value
             minute == time_str[2].value
         IN  IF frequency = "daily"
             THEN [ok |-> TRUE, output |-> <<hour, minute, "*", "*", "*">>]
             ELSE IF frequency = "weekly"
             THEN [ok |-> TRUE, output |-> Weekly(hour, minute)]
             ELSE IF frequency = "monthly"
             THEN [ok |-> TRUE, output |-> <<hour, minute, "1", "*", "*">>]
             ELSE [ok |-> FALSE, output |-> <<>>]

\* Line 51: job.setall(cron_expression) takes the entries of the list in the
\* order of the fields of a cron line (minute, hour, day of month, month, day
\* of week) and raises ValueError for a value outside the range of its field.
ValidSlices(slices) == slices[1] \in 0..59 /\ slices[2] \in 0..23

\* Lines 183-186: the backup data handed to the cron job and kept in the record.
BackupData(r) ==
    IF BackupType(r) = "directory"
    THEN [type |-> "directory", path |-> r.path, command |-> Absent, filename |-> Absent]
    ELSE [type |-> "command", path |-> Absent, command |-> r.command, filename |-> r.filename]

\* Lines 43-51: the job create_cron_job adds: the curl command that posts the
\* backup data and the key to the backups route of the location, at the time
\* setall sets.
CronJob(schedule_id, location_id, backup_data, slices) ==
    [minute |-> slices[1], hour |-> slices[2], day_of_month |-> slices[3],
     month |-> slices[4], day_of_week |-> slices[5],
     location_id |-> location_id, data |-> backup_data, key |-> schedule_id]

\* cron.find_comment("restic_schedule_<schedule_id>")
FindComment(tab, schedule_id) == {id \in DOMAIN tab : id = schedule_id}

Without(f, k) == [x \in DOMAIN f \ {k} |-> f[x]]

\* Lines 194-202: the record of a schedule.
ScheduleData(schedule_id, r, plat) ==
    [id |-> schedule_id, location_id |-> r.location_id, frequency |-> r.frequency,
     time |-> r.time, platform |-> plat, data |-> BackupData(r)]

Schedules(c) == IF HasField(c, "schedules") THEN c.schedules ELSE <<>>

\* Lines 173-174 and 214: the record enters the handler's copy of the configuration.
WithSchedule(c, schedule_id, data) ==
    IF HasField(c, "schedules")
    THEN [c EXCEPT !.schedules = (schedule_id :> data) @@ @]
    ELSE [x \in DOMAIN c \cup {"schedules"} |->
             IF x = "schedules" THEN (schedule_id :> data) ELSE c[x]]

ScheduleRequest(l, h, t, p, c, f, freq, time) ==
    [NoReq EXCEPT !.handler = "schedule", !.location_id = l, !.header = h, !.type = t,
                  !.path = p, !.command = c, !.filename = f,
                  !.frequency = freq, !.time = time]

\* str(uuid.uuid4()): an identifier that was never returned before; the one of
\* the n-th request is named after n.
NewId(n) == ToString(n)

\* The identifiers a delete request may name.
SchedIds == {NewId(n) : n \in 1..SchedSeqMaxReq}

\* Lines 130-154: the checks of the request that touch no store.
ScheduleRequestValid(r) ==
    /\ BackupType(r) \in {"directory", "command"}
    /\ BackupType(r) = "directory" =>
          r.path # Absent /\ r.frequency # Absent /\ r.time # <<>> /\ PathExists(r.path)
    /\ BackupType(r) = "command" =>
          r.command # Absent /\ r.filename # Absent /\ r.frequency # Absent /\ r.time # <<>>
    /\ r.frequency \in Frequencies

\* Lines 128-165, up to the read of the password store inside
\* save_password_to_store: the checks, the password header, the new schedule id.
CreateBackupSchedule(s, r, lim) ==
    /\ pc[s] = "idle"
    /\ nreq < lim
    /\ nreq' = nreq + 1
    /\ req' = [req EXCEPT ![s] = r]
    /\ IF ~ScheduleRequestValid(r) \/ Falsy(r.header)
       THEN Respond(s, ErrorResp(400)) /\ UNCHANGED loc
       ELSE /\ loc' = [loc EXCEPT ![s].schedule_id = NewId(nreq'), ![s].password = r.header,
                                  ![s].passwords = password_store]
            /\ pc' = [pc EXCEPT ![s] = "sched_password"]
            /\ UNCHANGED resp
    /\ UNCHANGED <<stores, gen, proc, events, server, crontab, platform>>

\* utils.save_password_to_store, lines 42-45: the store is written from the
\* entries read, with the password under the schedule id.
SchedSavePassword(s) ==
    /\ pc[s] = "sched_password"
    /\ password_store' = (loc[s].schedule_id :> loc[s].password) @@ loc[s].passwords
    /\ pc' = [pc EXCEPT ![s] = "sched_load"]
    /\ UNCHANGED <<config, backup_logs, req, loc, gen, proc, events, resp, nreq, server, crontab, platform>>

\* Lines 168-186: load_config(), the location check and the cron expression; a
\* ValueError of get_cron_expression is answered by the handler's except (line 225).
SchedLoad(s) ==
    /\ pc[s] = "sched_load"
    /\ LET e == get_cron_expression(req[s].frequency, req[s].time)
       IN  IF ~HasLocation(config, req[s].location_id)
           THEN Respond(s, ErrorResp(404)) /\ UNCHANGED loc
           ELSE IF ~e.ok
           THEN Respond(s, ErrorResp(500)) /\ UNCHANGED loc
           ELSE /\ loc' = [loc EXCEPT ![s].cfg = config, ![s].cron_expression = e.output]
                /\ pc' = [pc EXCEPT ![s] = IF platform = "linux" THEN "sched_cron"
                                                                 ELSE "sched_save"]
                /\ UNCHANGED resp
    /\ UNCHANGED <<stores, req, gen, proc, events, nreq, server, crontab, platform>>

\* Lines 189-191: where the handler goes after create_cron_job returned.
\* AfterCronJobIgnored is the variant that does not look at the result.
AfterCronJobIgnored(success) == "sched_save"

AfterCronJob(success) == IF success THEN "sched_save" ELSE "sched_failed"

\* Lines 34-56 and 189: create_cron_job writes the crontab with the new job and
\* returns True, or an exception (setall rejects a value, the crontab cannot be
\* read or written) makes it return False with the crontab as it was.
SchedCron(s) ==
    /\ pc[s] = "sched_cron"
    /\ \/ /\ ValidSlices(loc[s].cron_expression)
          /\ crontab' = (loc[s].schedule_id :>
                            CronJob(loc[s].schedule_id, req[s].location_id,
                                    BackupData(req[s]), loc[s].cron_expression)) @@ crontab
          /\ loc' = [loc EXCEPT ![s].success = TRUE]
          /\ pc' = [pc EXCEPT ![s] = AfterCronJob(TRUE)]
       \/ /\ UNCHANGED <<crontab, loc>>
          /\ pc' = [pc EXCEPT ![s] = AfterCronJob(FALSE)]
    /\ UNCHANGED <<stores, req, gen, proc, events, resp, nreq, server, platform>>

\* Line 191: the answer after create_cron_job returned False.
SchedFailed(s) ==
    /\ pc[s] = "sched_failed"
    /\ Respond(s, ErrorResp(500))
    /\ UNCHANGED <<stores, req, loc, gen, proc, events, nreq, server, crontab, platform>>

\* Lines 194-222: the record is written with save_config and returned; an
\* exception of save_config is answered by the handler's except (line 225).
SchedSave(s) ==
    /\ pc[s] = "sched_save"
    /\ \/ /\ config' = WithSchedule(loc[s].cfg, loc[s].schedule_id,
                                    ScheduleData(loc[s].schedule_id, req[s], platform))
          /\ Respond(s, [status |-> 200, body |-> "schedule",
                         schedule_id |-> loc[s].schedule_id])
       \/ /\ UNCHANGED config
          /\ Respond(s, ErrorResp(500))
    /\ UNCHANGED <<password_store, backup_logs, req, loc, gen, proc, events, nreq, server, crontab, platform>>

ListRequest(l) == [NoReq EXCEPT !.handler = "schedules", !.location_id = l]

\* Lines 273-286: the schedules of the location.
ListBackupSchedules(s, r, lim) ==
    /\ pc[s] = "idle"
    /\ nreq < lim
    /\ nreq' = nreq + 1
    /\ req' = [req EXCEPT ![s] = r]
    /\ IF ~HasLocation(config, r.location_id)
       THEN Respond(s, ErrorResp(404))
       ELSE Respond(s, [status |-> 200, body |-> "schedules",
                        schedules |-> {id \in DOMAIN Schedules(config) :
                                          Schedules(config)[id].location_id = r.location_id}])
    /\ UNCHANGED <<stores, loc, gen, proc, events, server, crontab, platform>>

DeleteRequest(l, id) ==
    [NoReq EXCEPT !.handler = "unschedule", !.location_id = l, !.schedule_id = id]

\* Lines 295-300: load_config() and the checks of the location and the schedule.
DeleteBackupSchedule(s, r, lim) ==
    /\ pc[s] = "idle"
    /\ nreq < lim
    /\ nreq' = nreq + 1
    /\ req' = [req EXCEPT ![s] = r]
    /\ IF ~HasLocation(config, r.location_id) \/ r.schedule_id \notin DOMAIN Schedules(config)
       THEN Respond(s, ErrorResp(404)) /\ UNCHANGED loc
       ELSE /\ loc' = [loc EXCEPT ![s].cfg = config]
            /\ pc' = [pc EXCEPT ![s] = "unsched_cron"]
            /\ UNCHANGED resp
    /\ UNCHANGED <<stores, gen, proc, events, server, crontab, platform>>

\* Lines 98-122: what remove_scheduled_job leaves of the crontab when it
\* returns True: on Linux the jobs of the schedule are removed; elsewhere the
\* crontab is not touched (on Windows the result of schtasks is not looked at).
\* RemoveNoJob is the variant that removes nothing.
RemoveNoJob(tab, schedule_id, plat) == tab

RemoveJobs(tab, schedule_id, plat) ==
    IF plat = "linux"
    THEN [id \in DOMAIN tab \ FindComment(tab, schedule_id) |-> tab[id]]
    ELSE tab

\* Lines 303-304: where the handler goes after remove_scheduled_job returned.
\* AfterRemoveIgnored is the variant that does not look at the result.
AfterRemoveIgnored(success) == "unsched_save"

AfterRemove(success) == IF success THEN "unsched_save" ELSE "unsched_failed"

\* Lines 98-122 and 303: remove_scheduled_job returns True, or an exception (the
\* crontab cannot be read or written, schtasks cannot be run) makes it return
\* False with the crontab as it was.
SchedRemove(s) ==
    /\ pc[s] = "unsched_cron"
    /\ \/ /\ crontab' = RemoveJobs(crontab, req[s].schedule_id, platform)
          /\ pc' = [pc EXCEPT ![s] = AfterRemove(TRUE)]
       \/ /\ platform \in {"linux", "windows"}
          /\ UNCHANGED crontab
          /\ pc' = [pc EXCEPT ![s] = AfterRemove(FALSE)]
    /\ UNCHANGED <<stores, req, loc, gen, proc, events, resp, nreq, server, platform>>

\* Line 304: the answer after remove_scheduled_job returned False.
SchedRemoveFailed(s) ==
    /\ pc[s] = "unsched_failed"
    /\ Respond(s, ErrorResp(500))
    /\ UNCHANGED <<stores, req, loc, gen, proc, events, nreq, server, crontab, platform>>

\* Lines 307-310: the record leaves the handler's copy, which is saved; an
\* exception of save_config is answered by the handler's except (line 313).
SchedDeleteSave(s) ==
    /\ pc[s] = "unsched_save"
    /\ \/ /\ config' = [loc[s].cfg EXCEPT !.schedules = Without(@, req[s].schedule_id)]
          /\ Respond(s, [status |-> 200, body |-> "deleted"])
       \/ /\ UNCHANGED config
          /\ Respond(s, ErrorResp(500))
    /\ UNCHANGED <<password_store, backup_logs, req, loc, gen, proc, events, nreq, server, crontab, platform>>

\* POST /locations/<location_id>/schedule/<schedule_id>/execute-backup
ExecuteRequest(l, id) ==
    [NoReq EXCEPT !.handler = "execute", !.location_id = l, !.schedule_id = id]

\* The POST the curl command of a job sends when cron fires it (lines 45 and
\* 48): the backup data and the key, to the backups route of the location the
\* job was created for, with no password header.
TriggerRequest(job) ==
    BackupRequest(job.location_id, Absent, job.key,
                  IF job.data.type = "command" THEN "command" ELSE Absent,
                  job.data.path, job.data.command, job.data.filename)

\* Lines 243-263: the data between the quotes of the job's command, handed to
\* extract_password_and_launch_backup with the location of the URL.
Replay(r, job) ==
    [TriggerRequest(job) EXCEPT !.location_id = r.location_id,
                                !.schedule_id = r.schedule_id]

\* Lines 230-263: execute_cron_job looks the job up by its comment; without one
\* it answers 400, with one it goes on as a backup request does (line 58).
ExecuteCronJob(s, r, lim) ==
    /\ platform = "linux"
    /\ IF FindComment(crontab, r.schedule_id) = {}
       THEN /\ server = "backup"
            /\ pc[s] = "idle"
            /\ nreq < lim
            /\ nreq' = nreq + 1
            /\ req' = [req EXCEPT ![s] = r]
            /\ Respond(s, ErrorResp(400))
            /\ UNCHANGED <<stores, loc, gen, proc, events, server, crontab, platform>>
       ELSE CreateBackup(s, Replay(r, crontab[r.schedule_id]), lim)

-----------------------------------------------------------------------------
(* The requests the callers send *)

Credentials ==
    {<<"pw1", Absent>>, <<Absent, Absent>>, <<Absent, "sched1">>, <<Absent, "nokey">>}

BackupRequests ==
    {BackupRequest(l, c[1], c[2], Absent, p, Absent, Absent) :
        l \in {"repoA", "repoB", "ghost"}, c \in Credentials, p \in {"/data", "/missing"}}
    \cup
    {BackupRequest("repoA", "pw1", Absent, d[1], d[2], d[3], d[4]) :
        d \in {<<"directory", "/docs", Absent, Absent>>,
               <<"directory", Absent, Absent, Absent>>,
               <<"command", Absent, "pg_dump", "db.sql">>,
               <<"command", Absent, "pg_dump", Absent>>,
               <<"tar", "/data", Absent, Absent>>}}

InitRequests ==
    {InitRequest(t, p) :
        t \in {<<"tmp", "repoA">>, <<"srv", "repoA">>, <<"tmp", "repoB", "">>,
               <<"nowhere">>, <<>>},
        p \in {"pw1", Absent}}

LogsRequests ==
    {LogsRequest(l, h, id) :
        l \in {"repoA", "ghost"}, h \in {"pw1", Absent}, id \in Hex8}

RestoreRequests ==
    {RestoreRequest(l, h, "1a2b3c4d", t) :
        l \in {"repoA", "ghost"}, h \in {"pw1", Absent}, t \in {"/restore", Absent}}

MainRequests ==
    {MainBackupRequest(l, c[1], c[2], d[1], d[2]) :
        l \in {"old", "ghost"},
        c \in Credentials,
        d \in {<<Absent, "/data">>, <<"directory", "/missing">>, <<"command", Absent>>}}
    \cup {MainRestoreRequest(l, h, "1a2b3c4d") : l \in {"old", "ghost"}, h \in {"pw1", Absent}}

\* The requests of the behaviours in which two requests run concurrently.
FewBackupRequests ==
    {BackupRequest("repoA", "pw1", Absent, d[1], d[2], d[3], d[4]) :
        d \in {<<"directory", "/data", Absent, Absent>>,
               <<"directory", "/missing", Absent, Absent>>,
               <<"command", Absent, "pg_dump", "db.sql">>}}

FewInitRequests ==
    {InitRequest(<<"tmp", "repoA">>, "pw1"), InitRequest(<<"tmp", "repoB", "">>, "pw1")}

\* The init requests of SchedSeqSpec: two targets whose last segment is repoA.
SchedInitRequests == FewInitRequests \cup {InitRequest(<<"srv", "repoA">>, "pw1")}

\* The requests of ExecSeqSpec: schedules for repoA, and their execution
\* through the routes of repoA and of repoB.
ExecScheduleRequests ==
    {ScheduleRequest("repoA", "pw1", "directory", "/data", Absent, Absent, "daily", TimeStr(3, 0)),
     ScheduleRequest("repoA", "pw2", "command", Absent, "pg_dump", "db.sql", "weekly", TimeStr(3, 0))}

ExecuteRequests == {ExecuteRequest(l, id) : l \in {"repoA", "repoB"}, id \in SchedIds}

FewLogsRequests == {LogsRequest("repoA", "pw1", "1a2b3c4d")}

\* The queries of Spec: each with a known location, an unknown one, and no
\* password header.
FewQueries == {<<"repoA", "pw1">>, <<"ghost", "pw1">>, <<"repoA", Absent>>}
FewContentsRequests == {ContentsRequest(q[1], q[2], "1a2b3c4d") : q \in FewQueries}
FewSnapshotsRequests == {SnapshotsRequest(q[1], q[2]) : q \in FewQueries}

\* The lines of the table "restic snapshots --compact" prints.
HeaderRow == <<"ID", " ", "Time", " ", "Host", " ", "Tags">>
RuleRow == <<"----">>
Row(id) == <<id, " ", "2024-01-01", " ", "10:00:00", " ", "host">>
SizedRow(id) == Row(id) \o <<" ", "1.2", " ", "GiB">>
ShortRow(id) == <<id, " ", "2024-01-01", " ", "10:00:00">>
CountRow == <<"2", " ", "snapshots">>
BlankRow == <<>>
SpaceRow == <<" ">>

RowKinds ==
    {Row("1a2b3c4d"), SizedRow("9f8e7d6c"), ShortRow("1a2b3c4d"), CountRow, RuleRow,
     BlankRow, SpaceRow}

\* The sequences of at most n elements of S.
SeqsUpTo(S, n) == UNION {[1..k -> S] : k \in 0..n}

\* What "restic snapshots" prints: nothing, or the header, the rule and the
\* lines after them.
Tables ==
    {<<>>} \cup {JoinLines(<<HeaderRow, RuleRow>> \o body) : body \in SeqsUpTo(RowKinds, MaxRows)}

FewTables == {JoinLines(<<HeaderRow, RuleRow, Row("1a2b3c4d"), RuleRow, CountRow>>)}

\* The lines "restic ls --json" prints, and lines that are no JSON.
NodeLine(name) == <<"{", name, "}">>
BrokenNodeLine == <<"{", "etc">>
NodeKinds == {NodeLine("etc"), NodeLine("home"), BrokenNodeLine, BlankRow, SpaceRow}

Listings == {JoinLines(body) : body \in SeqsUpTo(NodeKinds, MaxNodes)}

FewListings == {JoinLines(<<NodeLine("etc"), BrokenNodeLine>>)}

MainContentsRequests ==
    {MainContentsRequest(l, h, "1a2b3c4d") : l \in {"old", "ghost"}, h \in {"pw1", Absent}}

FewRestoreRequests == {RestoreRequest("repoA", "pw1", "1a2b3c4d", "/restore")}

FewMainRequests ==
    {MainBackupRequest("old", Absent, "sched1", "directory", "/data"),
     MainBackupRequest("old", Absent, "sched1", "directory", "/missing"),
     MainRestoreRequest("old", "pw1", "1a2b3c4d")}

\* The schedule requests: every frequency and a choice of times for a
\* directory backup of an existing location, and one request for each way of
\* being rejected.
Times ==
    {TimeStr(3, 0), TimeStr(14, 30), TimeStr(0, 45), TimeStr(23, 59), TimeStr(25, 0),
     TimeStr(3, 70), <<Num(3)>>, <<Text, Num(0)>>}

ScheduleRequests ==
    {ScheduleRequest("repoA", "pw1", "directory", "/data", Absent, Absent, f, t) :
        f \in Frequencies \cup {"hourly"}, t \in Times}
    \cup {ScheduleRequest(l, h, Absent, "/data", Absent, Absent, "daily", TimeStr(3, 0)) :
            l \in {"repoA", "ghost"}, h \in {"pw1", Absent}}
    \cup {ScheduleRequest("repoA", "pw1", d[1], d[2], d[3], d[4], d[5], d[6]) :
            d \in {<<"command", Absent, "pg_dump", "db.sql", "weekly", TimeStr(14, 30)>>,
                   <<"command", Absent, "pg_dump", Absent, "weekly", TimeStr(14, 30)>>,
                   <<"directory", "/missing", Absent, Absent, "daily", TimeStr(3, 0)>>,
                   <<"directory", Absent, Absent, Absent, "daily", TimeStr(3, 0)>>,
                   <<"directory", "/data", Absent, Absent, Absent, TimeStr(3, 0)>>,
                   <<"directory", "/data", Absent, Absent, "daily", <<>> >>,
                   <<"tar", "/data", Absent, Absent, "daily", TimeStr(3, 0)>>}}

DeleteRequests == {DeleteRequest(l, id) : l \in {"repoA", "repoB", "ghost"}, id \in SchedIds}

ListRequests == {ListRequest(l) : l \in {"repoA", "ghost"}}

FewScheduleRequests ==
    {ScheduleRequest("repoA", "pw1", "directory", "/data", Absent, Absent, "daily", TimeStr(3, 0)),
     ScheduleRequest("ghost", "pw1", "directory", "/data", Absent, Absent, "daily", TimeStr(3, 0)),
     ScheduleRequest("repoA", Absent, "directory", "/data", Absent, Absent, "daily", TimeStr(3, 0))}

FewDeleteRequests == {DeleteRequest("repoA", id) : id \in SchedIds}

FewListRequests == {ListRequest("repoA")}

-----------------------------------------------------------------------------
(* Specifications *)

\* One request at a time, with the full choice of requests and output lines.
SeqNext ==
    \/ \E r \in BackupRequests : CreateBackup(1, r, SeqMaxReq)
    \/ \E r \in InitRequests : InitLocation(1, r, SeqMaxReq)
    \/ \E r \in LogsRequests : ListBackupContents(1, r, SeqMaxReq)
    \/ \E r \in RestoreRequests : RestoreBackup(1, r, SeqMaxReq)
    \/ \E r \in MainRequests : MainRequest(1, r, SeqMaxReq)
    \/ BackupLoad(1) \/ BackupSave(1)
    \/ InitLoad(1) \/ InitSave(1)
    \/ LogsRead(1)
    \/ MainPassword(1)
    \/ ProcWrite(1, MaxLines, TRUE) \/ ProcExit(1)
    \/ BackupStreamStart(1) \/ BackupSpawn(1) \/ BackupReadLine(1) \/ BackupResume(1)
    \/ BackupReadFault(1) \/ BackupEOF(1) \/ BackupCompleted(1)
    \/ BackupReturn(1) \/ BackupClose(1)
    \/ RestoreStreamStart(1) \/ RestoreCounting(1) \/ RestoreCount(1, MaxFiles) \/ RestoreSpawn(1)
    \/ RestoreReadLine(1) \/ RestoreResume(1) \/ RestoreReadFault(1) \/ RestoreEOF(1)
    \/ RestoreSave(1) \/ RestoreCompleted(1) \/ RestoreReturn(1) \/ RestoreClose(1)
    \/ MainBackupStart(1) \/ MainBackupReadLine(1) \/ MainBackupResume(1)
    \/ MainBackupReadFault(1) \/ MainBackupCompleted(1) \/ MainRestoreStart(1)
    \/ MainReturn(1) \/ MainClose(1)
    \/ Reset(1)

SeqSpec == Init /\ [][SeqNext]_vars

\* Requests served concurrently by the slots.
Next ==
    \E s \in Slots :
        \/ \E r \in FewBackupRequests : CreateBackup(s, r, MaxReq)
        \/ \E r \in FewInitRequests : InitLocation(s, r, MaxReq)
        \/ \E r \in FewLogsRequests \cup FewContentsRequests : ListBackupContents(s, r, MaxReq)
        \/ \E r \in FewSnapshotsRequests : ListBackups(s, r, MaxReq)
        \/ \E r \in FewRestoreRequests : RestoreBackup(s, r, MaxReq)
        \/ \E r \in FewMainRequests : MainRequest(s, r, MaxReq)
        \/ BackupLoad(s) \/ BackupSave(s)
        \/ InitLoad(s) \/ InitSave(s)
        \/ LogsRead(s) \/ ContentsRun(s, FewListings) \/ SnapshotsRun(s, FewTables)
        \/ MainPassword(s)
        \/ ProcWrite(s, ConcMaxLines, FALSE) \/ ProcExit(s)
        \/ BackupStreamStart(s) \/ BackupSpawn(s) \/ BackupReadLine(s) \/ BackupResume(s)
        \/ BackupReadFault(s) \/ BackupEOF(s) \/ BackupCompleted(s)
        \/ BackupReturn(s) \/ BackupClose(s)
        \/ RestoreStreamStart(s) \/ RestoreCounting(s) \/ RestoreCount(s, MaxFiles) \/ RestoreSpawn(s)
        \/ RestoreReadLine(s) \/ RestoreResume(s) \/ RestoreReadFault(s) \/ RestoreEOF(s)
        \/ RestoreSave(s) \/ RestoreCompleted(s) \/ RestoreReturn(s) \/ RestoreClose(s)
        \/ MainBackupStart(s) \/ MainBackupReadLine(s) \/ MainBackupResume(s)
        \/ MainBackupReadFault(s) \/ MainBackupCompleted(s) \/ MainRestoreStart(s)
        \/ MainReturn(s) \/ MainClose(s)
        \/ Reset(s)

Spec == Init /\ [][Next]_vars


\* A fresh installation served by the routes of backup.py and schedule.py, on
\* one of the host platforms.
SchedInit ==
    /\ server = "backup"
    /\ config = DefaultConfig
    /\ password_store = <<>>
    /\ backup_logs = <<>>
    /\ req = [s \in Slots |-> NoReq]
    /\ pc = [s \in Slots |-> "idle"]
    /\ loc = [s \in Slots |-> NoLoc]
    /\ gen = [s \in Slots |-> NoGen]
    /\ proc = [s \in Slots |-> NoProc]
    /\ events = [s \in Slots |-> <<>>]
    /\ resp = [s \in Slots |-> NoResp]
    /\ nreq = 0
    /\ crontab = <<>>
    /\ platform \in {"linux", "windows", "darwin"}

\* The steps of the schedule, list, delete and init handlers in a slot.
SchedSteps(s) ==
    \/ SchedSavePassword(s) \/ SchedLoad(s) \/ SchedCron(s) \/ SchedFailed(s)
    \/ SchedSave(s)
    \/ SchedRemove(s) \/ SchedRemoveFailed(s) \/ SchedDeleteSave(s)
    \/ InitLoad(s) \/ InitSave(s)
    \/ Reset(s)

\* Schedule requests one at a time, with the full choice of requests.
SchedSeqNext ==
    \/ \E r \in ScheduleRequests : CreateBackupSchedule(1, r, SchedSeqMaxReq)
    \/ \E r \in DeleteRequests : DeleteBackupSchedule(1, r, SchedSeqMaxReq)
    \/ \E r \in ListRequests : ListBackupSchedules(1, r, SchedSeqMaxReq)
    \/ \E r \in SchedInitRequests : InitLocation(1, r, SchedSeqMaxReq)
    \/ SchedSteps(1)

SchedSeqSpec == SchedInit /\ [][SchedSeqNext]_vars

\* Schedule requests served concurrently by the slots.
SchedNext ==
    \E s \in Slots :
        \/ \E r \in FewScheduleRequests : CreateBackupSchedule(s, r, SchedMaxReq)
        \/ \E r \in FewDeleteRequests : DeleteBackupSchedule(s, r, SchedMaxReq)
        \/ \E r \in FewListRequests : ListBackupSchedules(s, r, SchedMaxReq)
        \/ \E r \in FewInitRequests : InitLocation(s, r, SchedMaxReq)
        \/ SchedSteps(s)

SchedSpec == SchedInit /\ [][SchedNext]_vars

\* Schedules on Linux and their execution on request, one request at a time.
ExecInit == SchedInit /\ platform = "linux"

ExecSeqNext ==
    \/ \E r \in FewInitRequests : InitLocation(1, r, ExecSeqMaxReq)
    \/ \E r \in ExecScheduleRequests : CreateBackupSchedule(1, r, ExecSeqMaxReq)
    \/ \E r \in ExecuteRequests : ExecuteCronJob(1, r, ExecSeqMaxReq)
    \/ \E r \in FewBackupRequests : CreateBackup(1, r, ExecSeqMaxReq)
    \/ InitLoad(1) \/ InitSave(1)
    \/ SchedSavePassword(1) \/ SchedLoad(1) \/ SchedCron(1) \/ SchedFailed(1) \/ SchedSave(1)
    \/ BackupLoad(1) \/ BackupSave(1)
    \/ ProcWrite(1, ConcMaxLines, FALSE) \/ ProcExit(1)
    \/ BackupStreamStart(1) \/ BackupSpawn(1) \/ BackupReadLine(1) \/ BackupResume(1)
    \/ BackupReadFault(1) \/ BackupEOF(1) \/ BackupCompleted(1)
    \/ BackupReturn(1) \/ BackupClose(1)
    \/ Reset(1)

ExecSeqSpec == ExecInit /\ [][ExecSeqNext]_vars

\* One client that registers a location and restores from it: the file count
\* and the number of lines the restore prints range widely.
RestoreSeqNext ==
    \/ \E r \in FewInitRequests : InitLocation(1, r, RestoreSeqMaxReq)
    \/ \E r \in RestoreRequests : RestoreBackup(1, r, RestoreSeqMaxReq)
    \/ InitLoad(1) \/ InitSave(1)
    \/ ProcWrite(1, RestoreMaxLines, TRUE) \/ ProcExit(1)
    \/ RestoreStreamStart(1) \/ RestoreCounting(1) \/ RestoreCount(1, RestoreMaxFiles)
    \/ RestoreSpawn(1)
    \/ RestoreReadLine(1) \/ RestoreResume(1) \/ RestoreReadFault(1) \/ RestoreEOF(1)
    \/ RestoreSave(1) \/ RestoreCompleted(1) \/ RestoreReturn(1) \/ RestoreClose(1)
    \/ Reset(1)

RestoreSeqSpec == ExecInit /\ [][RestoreSeqNext]_vars

\* One client that registers a location and queries it: the snapshot table
\* and the listing the tool prints range widely.
QuerySeqNext ==
    \/ \E r \in FewInitRequests : InitLocation(1, r, QuerySeqMaxReq)
    \/ \E r \in FewSnapshotsRequests : ListBackups(1, r, QuerySeqMaxReq)
    \/ \E r \in FewContentsRequests : ListBackupContents(1, r, QuerySeqMaxReq)
    \/ \E r \in MainContentsRequests : MainListBackupContents(1, r, QuerySeqMaxReq, Listings)
    \/ InitLoad(1) \/ InitSave(1)
    \/ SnapshotsRun(1, Tables) \/ ContentsRun(1, Listings)
    \/ Reset(1)

QuerySeqSpec == Init /\ [][QuerySeqNext]_vars

-----------------------------------------------------------------------------
(* Properties *)

StreamOf(s, handlers) == req[s].handler \in handlers /\ resp[s] = StreamResp

Terminals(evs) == {i \in 1..Len(evs) : IsTerminal(evs[i])}

Outputs(evs) == SelectSeq(evs, LAMBDA e : e.type = "output")

HasCompleted(evs, ok) ==
    \E i \in 1..Len(evs) : evs[i].type = "completed" /\ evs[i].success = ok

\* C1: every backup or restore event stream that has ended has emitted exactly
\* one terminal event (a completed event or an error event), however it ended.
C1_ExactlyOneTerminal ==
    \A s \in Slots :
        (StreamOf(s, {"backup", "restore"}) /\ pc[s] = "done")
            => Cardinality(Terminals(events[s])) = 1

\* C2: no orphaned subprocess: once a stream generator of utils.py, backup.py
\* or main.py is over, its subprocess is not alive any more.
C2_NoOrphan ==
    \A s \in Slots :
        (StreamOf(s, {"backup", "restore", "main_backup", "main_restore"}) /\ pc[s] = "done")
            => ~Alive(proc[s])

\* C3: within one backup job the k-th output event carries the k-th line the
\* subprocess printed (none dropped, duplicated or reordered), a completed
\* event comes only after every line has been delivered, and a terminal event
\* is the last event of the stream.
C3_OutputInOrder ==
    \A s \in Slots :
        StreamOf(s, {"backup"}) =>
            LET evs == events[s]
                outs == Outputs(evs)
            IN  /\ Len(outs) <= Len(proc[s].out)
                /\ \A k \in 1..Len(outs) : outs[k].output = Strip(proc[s].out[k])
                /\ \A i \in 1..Len(evs) :
                      /\ IsTerminal(evs[i]) => i = Len(evs)
                      /\ evs[i].type = "output" => i = 1 + Len(Outputs(SubSeq(evs, 1, i)))
                      /\ evs[i].type = "completed" => Len(outs) = Len(proc[s].out)

C3_Witness ==
    \E s \in Slots :
        /\ StreamOf(s, {"backup"})
        /\ proc[s].out = <<SavedLine("1a2b3c4d"), PlainLine>>
        /\ Len(events[s]) = 4
        /\ events[s][2].output = Strip(SavedLine("1a2b3c4d"))
        /\ events[s][3].output = Strip(PlainLine)
        /\ events[s][4].type = "completed"

\* C4: when the subprocess of a stream ran to its exit, the success flag of the
\* terminal event is true exactly when the exit code is 0, and the exit is not
\* raised as an exception.
C4_SuccessIffExitZero ==
    \A s \in Slots :
        StreamOf(s, {"backup", "restore", "main_backup", "main_restore"}) =>
            /\ \A i \in 1..Len(events[s]) :
                  events[s][i].type = "completed"
                      => (events[s][i].success <=> proc[s].rc = 0)
            /\ (proc[s].st = "exited" /\ ~proc[s].terminated) => gen[s].how # "raised"

\* C5: when the subprocess cannot be spawned, the backup or restore stream ends
\* with a single terminal error event and no exception leaves the stream.
C5_SpawnFailureIsErrorEvent ==
    \A s \in Slots :
        (StreamOf(s, {"backup", "restore"}) /\ pc[s] = "done" /\ proc[s].st = "failed")
            => /\ gen[s].how # "raised"
               /\ Cardinality(Terminals(events[s])) = 1
               /\ events[s][Len(events[s])].type = "error"

\* C6: when the terminal event of a backup stream reports success with a job
\* identifier J, the log file of J exists and reading it returns the lines the
\* stream collected, in order.
C6_LogRoundTrip ==
    \A s \in Slots :
        StreamOf(s, {"backup"}) =>
            \A i \in 1..Len(events[s]) :
                (/\ events[s][i].type = "completed"
                 /\ events[s][i].success
                 /\ events[s][i].snapshot_id # NoneId)
                    => /\ HasLog(events[s][i].snapshot_id)
                       /\ ReadLogs(backup_logs, events[s][i].snapshot_id)
                              = Concat(gen[s].output_lines)
                       /\ gen[s].output_lines = proc[s].out

C6_Witness ==
    \E s \in Slots :
        /\ StreamOf(s, {"backup"})
        /\ Len(events[s]) = 4
        /\ events[s][4] = CompletedEvent(TRUE, "9f8e7d6c")
        /\ gen[s].output_lines = <<BlankLine, SavedLine("9f8e7d6c")>>
        /\ ReadLogs(backup_logs, "9f8e7d6c") = BlankLine \o SavedLine("9f8e7d6c")

\* C7: the steps of a backup request do not change the known paths of its
\* location before its backup has completed successfully.
C7_AppendOnlyAfterCompletion ==
    [][\A s \in Slots :
          (/\ req[s].handler = "backup"
           /\ pc'[s] # pc[s]
           /\ ~HasCompleted(events[s], TRUE))
              => KnownPaths(config', req[s].location_id)
                     = KnownPaths(config, req[s].location_id)]_vars

NoDuplicates(seq) == \A i, j \in 1..Len(seq) : seq[i] = seq[j] => i = j

\* C8: no location's known_paths holds the same entry twice.
C8_NoDuplicatePaths ==
    \A id \in DOMAIN config.locations : NoDuplicates(KnownPaths(config, id))

PastValidation(s) ==
    req[s].handler = "backup" /\ resp[s] = StreamResp

C8_Witness ==
    /\ \A s \in Slots : PastValidation(s) /\ req[s].path = "/data"
    /\ KnownPaths(config, "repoA") = <<"/data">>

\* C9: when a backup of a location completes successfully (the step by which
\* its stream emits the completed event with success), the known paths of the
\* location in the configuration contain the source token of the backup.
C9_TokenKnownAfterSuccess ==
    [][\A s \in Slots :
          (/\ StreamOf(s, {"backup"})
           /\ ~HasCompleted(events[s], TRUE)
           /\ HasCompleted(events'[s], TRUE))
              => InSeq(SourceToken(req[s]), KnownPaths(config', req[s].location_id))]_vars

\* A directory backup request whose path does not exist.
MissingDirectory(r) ==
    \/ r.handler = "backup" /\ BackupType(r) = "directory"
         /\ r.path # Absent /\ ~PathExists(r.path)
    \/ r.handler = "main_backup" /\ r.type # "command"
         /\ r.path # Absent /\ ~PathExists(r.path)

\* The request has been answered with an error and nothing else.
AnsweredWithError(s) ==
    \/ resp[s].status = 400 /\ events[s] = <<>>
    \/ resp[s] = StreamResp /\ Len(events[s]) = 1 /\ events[s][1].type = "error"

C10_State ==
    \A s \in Slots :
        MissingDirectory(req[s]) =>
            /\ proc[s] = NoProc
            /\ (pc[s] = "done" /\ HasLocation(loc[s].cfg, req[s].location_id)
                    => resp[s] = ErrorResp(400))
            /\ (pc[s] = "done" /\ req[s].handler = "main_backup" /\ resp[s] = StreamResp
                    => AnsweredWithError(s))

C10_Step ==
    \A s \in Slots :
        (MissingDirectory(req[s]) /\ pc'[s] # pc[s] /\ pc[s] # "done") => config' = config

\* C10: a directory backup request for an existing location whose path does
\* not exist is answered with a validation error, spawns no subprocess and
\* leaves the configuration unchanged.
C10_MissingPathRejected == []C10_State /\ [][C10_Step]_vars

C10_Witness ==
    \E s \in Slots :
        /\ req[s].handler = "backup" /\ MissingDirectory(req[s])
        /\ HasLocation(loc[s].cfg, req[s].location_id)
        /\ pc[s] = "done"
        /\ resp[s] = ErrorResp(400)
        /\ \E t \in Slots : t # s /\ PastValidation(t) /\ pc[t] = "reading"

\* The request needs a credential and supplies neither a password header nor a
\* key that resolves in the password store.
NoCredential(r) ==
    /\ r.handler \in {"backup", "restore", "logs", "main_backup", "main_restore"}
    /\ Falsy(r.header)
    /\ Falsy(r.key) \/ Falsy(get_password_from_key(r.key))

C11_State ==
    \A s \in Slots :
        NoCredential(req[s]) =>
            /\ proc[s] = NoProc
            /\ resp[s].status \in {0, 400, 404}
            /\ events[s] = <<>>

C11_Step ==
    \A s \in Slots :
        (NoCredential(req'[s]) /\ pc'[s] # pc[s] /\ pc'[s] # "idle") => stores' = stores

\* C11: a request that needs a credential and supplies neither a password
\* header nor a resolvable key is rejected with a validation error; no
\* subprocess is spawned for it and no step of it modifies a store.
C11_NoCredentialRejected == []C11_State /\ [][C11_Step]_vars

\* A finished request of a handler that resolves a location, for a location id
\* the configuration does not hold.
UnknownLocationDone(s) ==
    /\ req[s].handler \in {"backup", "logs", "restore", "main_backup", "main_restore"}
    /\ req[s].location_id \notin DOMAIN config.locations
    /\ pc[s] = "done"

SuppliesCredential(r) ==
    IF r.handler = "backup" /\ r.key # Absent
    THEN r.key \in DOMAIN password_store
    ELSE r.header # Absent

ValidTime(time_str) ==
    /\ TimeParses(time_str)
    /\ time_str[1].value \in 0..23
    /\ time_str[2].value \in 0..59

\* C13: the job registered for a schedule with a valid time HH:MM fires at hour
\* HH and minute MM: its minute field is MM and its hour field is HH.
C13_TriggerAtRequestedTime ==
    \A id \in DOMAIN crontab : \A sid \in DOMAIN Schedules(config) :
        (id = sid /\ ValidTime(Schedules(config)[sid].time)) =>
            /\ crontab[id].minute = Schedules(config)[sid].time[2].value
            /\ crontab[id].hour = Schedules(config)[sid].time[1].value

\* The fields of a job in the order of a cron line.
CronLine(job) == <<job.minute, job.hour, job.day_of_month, job.month, job.day_of_week>>

\* The registered jobs that have a schedule record: the record tells the
\* frequency and the time the job was derived from.
Recorded == DOMAIN crontab \cap DOMAIN Schedules(config)

\* C14: the trigger expression is a function of the frequency and the time
\* alone: daily leaves day of month and day of week open, weekly fixes day of
\* week to 0 and leaves day of month open, monthly fixes day of month to 1 and
\* leaves day of week open, the month is open in all three, and two jobs derived
\* from the same frequency and time carry the same expression.
C14_ExpressionByFrequency ==
    /\ \A id \in Recorded :
          LET job == crontab[id]
              frequency == Schedules(config)[id].frequency
          IN  /\ job.month = "*"
              /\ frequency = "daily" => job.day_of_month = "*" /\ job.day_of_week = "*"
              /\ frequency = "weekly" => job.day_of_month = "*" /\ job.day_of_week = "0"
              /\ frequency = "monthly" => job.day_of_month = "1" /\ job.day_of_week = "*"
    /\ \A a, b \in Recorded :
          (/\ Schedules(config)[a].frequency = Schedules(config)[b].frequency
           /\ Schedules(config)[a].time = Schedules(config)[b].time)
              => CronLine(crontab[a]) = CronLine(crontab[b])

C14_Witness ==
    \E a, b \in Recorded :
        /\ a # b
        /\ Schedules(config)[a].frequency = "weekly"
        /\ Schedules(config)[b].frequency = "weekly"
        /\ Schedules(config)[a].time = TimeStr(3, 0)
        /\ Schedules(config)[b].time = TimeStr(3, 0)
        /\ crontab[b].day_of_week = "0"

\* create_cron_job has returned False to the schedule request of the slot.
RegistrationFailed(s) ==
    /\ req[s].handler = "schedule"
    /\ platform = "linux"
    /\ pc[s] \in {"sched_failed", "sched_save", "done"}
    /\ loc[s].cron_expression # <<>>
    /\ ~loc[s].success

\* C15: when the registration of the platform trigger fails, the schedule
\* request is answered with an error and no record of its schedule id is in the
\* configuration.
C15_NoRecordWithoutTrigger ==
    \A s \in Slots :
        RegistrationFailed(s) =>
            /\ loc[s].schedule_id \notin DOMAIN Schedules(config)
            /\ pc[s] = "sched_failed" \/ (pc[s] = "done" /\ resp[s] = ErrorResp(500))

C15_Witness ==
    \E s \in Slots :
        /\ RegistrationFailed(s)
        /\ pc[s] = "done"
        /\ ValidSlices(loc[s].cron_expression)
        /\ loc[s].schedule_id \in DOMAIN password_store
        /\ \E t \in Slots : t # s /\ req[t].handler = "schedule" /\ pc[t] = "done"
                              /\ loc[t].schedule_id \in DOMAIN Schedules(config)

\* The schedule request of the slot has been answered with an error.
ScheduleRefused(s) ==
    req[s].handler = "schedule" /\ pc[s] = "done" /\ resp[s].status # 200

\* C16: a schedule request that is answered with an error leaves the password
\* store, the crontab and the schedule records as they were: nothing is kept
\* under the schedule id the request generated.
C16_CreateAllOrNothing ==
    \A s \in Slots :
        ScheduleRefused(s) =>
            /\ loc[s].schedule_id \notin DOMAIN password_store
            /\ loc[s].schedule_id \notin DOMAIN crontab
            /\ loc[s].schedule_id \notin DOMAIN Schedules(config)

\* C17: in no state does the crontab hold a job labelled with a schedule id for
\* which the configuration holds no schedule record.
C17_NoTriggerWithoutRecord == DOMAIN crontab \subseteq DOMAIN Schedules(config)

DeletedResp == [status |-> 200, body |-> "deleted"]

\* C18: when a delete request returns success, the configuration holds no
\* record of the schedule and the crontab holds no job with its label.
C18_DeleteRemovesBoth ==
    [][\A s \in Slots :
          (req[s].handler = "unschedule" /\ resp[s] # DeletedResp /\ resp'[s] = DeletedResp)
              => /\ req[s].schedule_id \notin DOMAIN Schedules(config')
                 /\ FindComment(crontab', req[s].schedule_id) = {}]_vars

C18_Witness ==
    \E s, t \in Slots :
        /\ platform = "linux"
        /\ req[s].handler = "unschedule" /\ resp[s] = DeletedResp
        /\ req[s].schedule_id \in DOMAIN password_store
        /\ req[s].schedule_id \notin DOMAIN Schedules(config)
        /\ req[s].schedule_id \notin DOMAIN crontab
        /\ req[t].handler = "schedules" /\ resp[t].status = 200
        /\ req[s].schedule_id \notin resp[t].schedules

Quiet == \A s \in Slots : pc[s] \in {"idle", "done"}

\* C20: whenever no request is being served, the password store holds an entry
\* under a key exactly when the configuration holds a schedule record with that
\* id; in particular a deleted schedule leaves no entry behind.
C20_CredentialPerSchedule ==
    Quiet => DOMAIN password_store = DOMAIN Schedules(config)

\* The request asks for a frequency that is not daily, weekly or monthly, or
\* for a time that is not HH:MM of the 24-hour clock.
BadFrequencyOrTime(r) ==
    r.handler = "schedule" /\ (r.frequency \notin Frequencies \/ ~ValidTime(r.time))

\* C21: a schedule request with a wrong frequency or a malformed time is
\* answered with a client error (4xx), and no job and no record exist under the
\* schedule id it generated.
C21_BadScheduleRejected ==
    \A s \in Slots :
        (BadFrequencyOrTime(req[s]) /\ pc[s] = "done") =>
            /\ resp[s].status \in 400..499
            /\ loc[s].schedule_id \notin DOMAIN crontab
            /\ loc[s].schedule_id \notin DOMAIN Schedules(config)

\* C22: every schedule record of the configuration names a location of the
\* configuration, and a schedule request for an id that is not a location ends
\* with no job and no record under the schedule id it generated.
C22_ScheduleNamesLocation ==
    /\ \A id \in DOMAIN Schedules(config) :
          Schedules(config)[id].location_id \in DOMAIN config.locations
    /\ \A s \in Slots :
          (/\ req[s].handler = "schedule" /\ pc[s] = "done"
           /\ req[s].location_id \notin DOMAIN loc[s].cfg.locations
           /\ req[s].location_id \notin DOMAIN config.locations)
              => /\ loc[s].schedule_id \notin DOMAIN crontab
                 /\ loc[s].schedule_id \notin DOMAIN Schedules(config)

C22_Witness ==
    \E s, t \in Slots :
        /\ req[s].handler = "schedule" /\ pc[s] = "done" /\ resp[s].status = 200
        /\ loc[s].schedule_id \in DOMAIN Schedules(config)
        /\ Schedules(config)[loc[s].schedule_id].location_id = "repoA"
        /\ req[t].handler = "schedule" /\ pc[t] = "done" /\ resp[t].status = 404
        /\ req[t].location_id = "ghost"
        /\ loc[t].schedule_id \in DOMAIN password_store

\* C23: no step removes a location from the configuration: an id that is
\* registered before a step is registered after it.
C23_LocationNeverRemoved ==
    [][DOMAIN config.locations \subseteq DOMAIN config'.locations]_vars

\* The last segment of a target that is not empty (a trailing '/' leaves an
\* empty segment behind it).
LastSegment(target) ==
    LET i == CHOOSE i \in 1..Len(target) :
                 target[i] # "" /\ \A j \in (i + 1)..Len(target) : target[j] = ""
    IN  target[i]

\* C24: the step by which an init request answers 200 leaves, under the last
\* segment of its target, the mapping to that target with no known paths,
\* whether or not the id was registered before, and leaves every other
\* location and every schedule record as it was.
C24_InitOverwrites ==
    [][\A s \in Slots :
          (pc[s] = "init_save" /\ resp'[s].status = 200) =>
              LET id == LastSegment(req[s].location)
              IN  /\ id \in DOMAIN config'.locations
                  /\ config'.locations[id] = [repo_path |-> req[s].location, paths |-> <<>>]
                  /\ \A l \in DOMAIN config.locations \ {id} :
                        /\ l \in DOMAIN config'.locations
                        /\ config'.locations[l] = config.locations[l]
                  /\ DOMAIN config'.locations = DOMAIN config.locations \cup {id}
                  /\ Schedules(config') = Schedules(config)]_vars

\* An init for /srv/repoA has replaced the mapping of repoA after a backup into
\* /tmp/repoA had succeeded.
C24_Witness ==
    \E s \in Slots :
        /\ req[s].handler = "init" /\ pc[s] = "done" /\ resp[s].status = 200
        /\ req[s].location = <<"srv", "repoA">>
        /\ config.locations["repoA"] = [repo_path |-> <<"srv", "repoA">>, paths |-> <<>>]
        /\ backup_logs # <<>>

\* The passwords the server has been given: those of the password store and
\* those of the requests being served.
Secrets ==
    ({password_store[k] : k \in DOMAIN password_store}
        \cup {req[t].header : t \in Slots} \cup {req[t].password : t \in Slots})
    \ {Absent, ""}

\* The password a request presents: the one stored under its key, or its header.
Credential(r) ==
    IF r.key \notin {Absent, ""} /\ r.key \in DOMAIN password_store
    THEN password_store[r.key]
    ELSE r.header

HasProcess(s) == proc[s].st \in {"running", "exited"}

\* C25: a started subprocess has the request's password in RESTIC_PASSWORD of
\* its environment and no password among its arguments, and a job of the
\* crontab carries its schedule id as key and no password in its command.
C25_SecretOnlyInEnvironment ==
    /\ \A s \in Slots :
          HasProcess(s) =>
              /\ "RESTIC_PASSWORD" \in DOMAIN proc[s].env
              /\ proc[s].env.RESTIC_PASSWORD = Credential(req[s])
              /\ \A i \in DOMAIN proc[s].cmd : proc[s].cmd[i] \notin Secrets
    /\ \A id \in DOMAIN crontab :
          /\ crontab[id].key = id
          /\ {crontab[id].key, crontab[id].location_id, crontab[id].data.path,
              crontab[id].data.command, crontab[id].data.filename} \cap Secrets = {}

C25_Witness ==
    \E s \in Slots :
        /\ HasProcess(s)
        /\ req[s].schedule_id \in DOMAIN crontab
        /\ req[s].key = req[s].schedule_id
        /\ proc[s].env.RESTIC_PASSWORD = "pw2"
        /\ proc[s].cmd[5] = "pg_dump"

\* The slot serves an execute request that found the job of its schedule.
Replaying(s) ==
    /\ req[s].handler = "backup"
    /\ req[s].schedule_id # Absent
    /\ req[s].schedule_id \in DOMAIN crontab

\* C26: an execute request that starts the tool serves the request the command
\* of its schedule's job would send (the job's location, its backup data and
\* its key), with the password stored under the schedule id; one that finds no
\* job is answered with an error and starts no subprocess.
C26_ExecuteReplaysTrigger ==
    \A s \in Slots :
        /\ (Replaying(s) /\ HasProcess(s)) =>
              /\ [req[s] EXCEPT !.schedule_id = Absent]
                    = TriggerRequest(crontab[req[s].schedule_id])
              /\ req[s].schedule_id \in DOMAIN password_store
              /\ proc[s].env.RESTIC_PASSWORD = password_store[req[s].schedule_id]
        /\ (req[s].handler = "execute" /\ pc[s] = "done") =>
              /\ resp[s].status >= 400
              /\ proc[s] = NoProc

Queries == {"snapshots", "contents", "logs"}

\* C27: no step of a query (listing the snapshots, listing the contents of a
\* snapshot, retrieving a log), whatever its outcome, changes the
\* configuration, the password store, the logs or the crontab.
C27_QueriesChangeNothing ==
    [][\A s \in Slots :
          (pc'[s] # pc[s] /\ req'[s].handler \in Queries)
              => UNCHANGED <<config, password_store, backup_logs, crontab>>]_vars

\* A log has been returned and is still there, with a location registered.
C27_Witness ==
    \E s \in Slots :
        /\ req[s].handler = "logs" /\ pc[s] = "done" /\ resp[s].status = 200
        /\ req[s].backup_id \in DOMAIN backup_logs
        /\ resp[s].logs = backup_logs[req[s].backup_id]
        /\ HasLocation(config, req[s].location_id)

-----------------------------------------------------------------------------
(* C28: every percentage a restore stream reports lies in 0..100, for      *)
(* every file count above 0 and every number of lines read, also when more *)
(* lines are read than the count announced.                                *)

Percentages(s) ==
    {events[s][i].progress : i \in {j \in 1..Len(events[s]) : events[s][j].type = "progress"}}

C28_PercentageInRange ==
    \A s \in Slots :
        (req[s].handler = "restore" /\ gen[s].total_files > 0)
            => Percentages(s) \subseteq 0..100

\* 100 % has been reported and more lines were read than files counted.
C28_Witness ==
    \E s \in Slots :
        /\ req[s].handler = "restore"
        /\ gen[s].total_files > 1
        /\ gen[s].processed_files > gen[s].total_files
        /\ 100 \in Percentages(s)
        /\ \E p \in Percentages(s) : p < 100

-----------------------------------------------------------------------------
(* C29: when the file count before a restore fails, the restore is started *)
(* all the same: the stream carries no percentage, the subprocess is       *)
(* spawned, and a stream that is read to its end finishes with the         *)
(* completed event that tells whether the restore itself exited 0.         *)

LastEvent(s) == events[s][Len(events[s])]

EventTypes(s) == {events[s][i].type : i \in 1..Len(events[s])}

CountFailed(s) == req[s].handler = "restore" /\ gen[s].count_failed

-----------------------------------------------------------------------------
(* C30: a Job Log is created or overwritten under identifier J only by a   *)
(* backup run that read a line marking success and carrying J, read its    *)
(* output to the end, and whose subprocess exited 0 by itself; a run that  *)
(* exits nonzero, is not spawned, raises or is torn down writes no Job Log. *)

\* The line marks a saved snapshot and carries J.
Marker(line, J) ==
    /\ Contains(Lower(line), "snapshot")
    /\ Contains(Lower(line), "saved")
    /\ Contains(line, J)

\* This step creates the Job Log J or changes its content.
Writes(J) ==
    /\ J \in DOMAIN backup_logs'
    /\ J \notin DOMAIN backup_logs \/ backup_logs'[J] # backup_logs[J]

SuccessfulRun(s, J) ==
    /\ req[s].handler = "backup"
    /\ proc[s].st = "exited" /\ proc[s].rc = 0 /\ ~proc[s].terminated
    /\ proc[s].rd = Len(proc[s].out)
    /\ gen[s].how = "none"
    /\ \E i \in 1..Len(gen[s].output_lines) : Marker(gen[s].output_lines[i], J)

C30_LogOnlyAfterSuccess ==
    [][\A J \in DOMAIN backup_logs' : Writes(J) => \E s \in Slots : SuccessfulRun(s, J)]_vars

\* Two markers were read: the log is under the identifier of the last one only.
C30_Witness ==
    \E s \in Slots :
        /\ req[s].handler = "backup" /\ pc[s] = "emit_term"
        /\ Len(gen[s].output_lines) = 2
        /\ Marker(gen[s].output_lines[1], "9f8e7d6c")
        /\ Marker(gen[s].output_lines[2], "1a2b3c4d")
        /\ DOMAIN backup_logs = {"1a2b3c4d"}

-----------------------------------------------------------------------------
(* C31: the configuration is read, modified and written without a lock: a  *)
(* backup that saves writes the whole file from the copy it loaded, so     *)
(* what another request saved in between is lost.  The witness is the lost *)
(* update: two finished backups of one location, one of whose tokens is    *)
(* not among the known paths.                                              *)

C31_SaveReplacesWholeFile ==
    [][\A s \in Slots :
          (pc[s] = "backup_save" /\ pc'[s] # "backup_save") => config' = loc[s].cfg]_vars

FinishedBackup(s) ==
    /\ req[s].handler = "backup"
    /\ pc[s] = "done" /\ gen[s].how = "returned"
    /\ HasCompleted(events[s], TRUE)

C31_Witness ==
    /\ \A s \in Slots : FinishedBackup(s) /\ req[s].location_id = "repoA"
    /\ SourceToken(req[1]) # SourceToken(req[2])
    /\ HasLocation(config, "repoA")
    /\ \E s \in Slots : ~InSeq(SourceToken(req[s]), KnownPaths(config, "repoA"))
    /\ \E s \in Slots : InSeq(SourceToken(req[s]), KnownPaths(config, "repoA"))

-----------------------------------------------------------------------------
(* C32: every schedule record of the configuration has an entry under its  *)
(* schedule id in the password store, holding the password of the request  *)
(* that created it, also when schedule requests are served concurrently.   *)

C32_RecordHasCredential ==
    \A id \in DOMAIN Schedules(config) :
        /\ id \in DOMAIN password_store
        /\ \A s \in Slots :
              (req[s].handler = "schedule" /\ loc[s].schedule_id = id)
                  => password_store[id] = req[s].header

-----------------------------------------------------------------------------
(* C33: the snapshot list holds one record for every line of the output    *)
(* after the first two that has at least four tokens, in the order of the  *)
(* output, each under the first token of its line; a line with fewer       *)
(* tokens gives no record and no error.                                    *)

\* The lines of the text as printed: split at the newlines, nothing stripped.
RawLines(text) == SplitLines(text)

HasFourTokens(line) == Len(Split(line)) >= 4

AfterHeader(text) == SubSeq(RawLines(text), 3, Len(RawLines(text)))

SnapshotsAnswered(s) == req[s].handler = "snapshots" /\ pc[s] = "done" /\ loc[s].ran = "ok"

C33_SnapshotRows ==
    \A s \in Slots :
        SnapshotsAnswered(s) =>
            /\ resp[s].status = 200
            /\ LET rows == SelectSeq(AfterHeader(loc[s].stdout), HasFourTokens)
               IN  /\ Len(resp[s].snapshots) = Len(rows)
                   /\ \A i \in 1..Len(rows) :
                         /\ resp[s].snapshots[i].snapshot_id = Split(rows[i])[1]
                         /\ resp[s].snapshots[i].date = SubSeq(Split(rows[i]), 2, 3)

\* Two records were returned from a table that also has a line of three
\* tokens and a blank line between the two rows.
C33_Witness ==
    \E s \in Slots :
        /\ SnapshotsAnswered(s)
        /\ loc[s].stdout = JoinLines(<<HeaderRow, RuleRow, SizedRow("9f8e7d6c"),
                                       ShortRow("1a2b3c4d"), Row("1a2b3c4d")>>)
        /\ Len(resp[s].snapshots) = 2
        /\ resp[s].snapshots[1].size = <<"1.2", "GiB">>
        /\ resp[s].snapshots[2].snapshot_id = "1a2b3c4d"

-----------------------------------------------------------------------------
(* C34: when the listing tool exited 0, the contents answer is 200 and     *)
(* holds exactly the lines of the output that parse, as parsed, in order:  *)
(* a line that does not parse leaves no element and causes no error.       *)

ParsesAsRecord(line) == IsJson(Strip(line))

Parsed(text) ==
    LET ls == SelectSeq(RawLines(text), ParsesAsRecord)
    IN  [i \in 1..Len(ls) |-> Strip(ls[i])]

ContentsAnswered(s) ==
    req[s].handler \in {"contents", "main_contents"} /\ pc[s] = "done" /\ loc[s].ran = "ok"

-----------------------------------------------------------------------------
(* C35: on every platform, when a schedule request is answered with        *)
(* success a trigger labelled with the new schedule id is registered.      *)

\* The schedule ids under which a trigger is registered with the platform: the
\* jobs of the crontab.  No scheduled task of Windows is ever registered, as
\* create_windows_task (schedule.py lines 58-96) has no caller.
Triggers(tab) == DOMAIN tab

C35_TriggerOnEveryPlatform ==
    [][\A s \in Slots :
          (req[s].handler = "schedule" /\ pc[s] = "sched_save" /\ resp'[s].status = 200)
              => loc[s].schedule_id \in Triggers(crontab')]_vars

-----------------------------------------------------------------------------
(* C36: a delete request that names an existing location other than the    *)
(* one the schedule belongs to is answered 404 and leaves the record and   *)
(* the trigger of the schedule as they are.                                *)

\* The request r addresses, through another existing location, a schedule
\* that the configuration c records.
ThroughOtherLocation(c, r) ==
    /\ r.handler = "unschedule"
    /\ HasLocation(c, r.location_id)
    /\ r.schedule_id \in DOMAIN Schedules(c)
    /\ Schedules(c)[r.schedule_id].location_id # r.location_id

C36_DeleteOnlyThroughOwnLocation ==
    [][\A s \in Slots :
          (pc'[s] # pc[s] /\ ThroughOtherLocation(config, req'[s])) =>
              /\ resp'[s] = ErrorResp(404)
              /\ req'[s].schedule_id \in DOMAIN Schedules(config')
              /\ crontab' = crontab]_vars

-----------------------------------------------------------------------------
(* C37: in a restore stream with a file count above 0 the percentages of   *)
(* the progress events are multiples of 5 and strictly increasing in the   *)
(* order of the events, and no progress event follows the one reporting    *)
(* 100, however many lines are read after it.                              *)

ProgressAt(s) == {i \in 1..Len(events[s]) : events[s][i].type = "progress"}

C37_ProgressStrictlyIncreasing ==
    \A s \in Slots :
        (req[s].handler = "restore" /\ gen[s].total_files > 0) =>
            \A i \in ProgressAt(s) :
                /\ events[s][i].progress % 5 = 0
                /\ \A j \in ProgressAt(s) :
                      i < j => /\ events[s][i].progress < events[s][j].progress
                               /\ events[s][i].progress # 100

\* 25, 50, 75 and 100 were reported for eight files, and lines were read
\* after the eighth without a further event.
C37_Witness ==
    \E s \in Slots :
        /\ req[s].handler = "restore"
        /\ gen[s].total_files = 8
        /\ gen[s].processed_files >= 10
        /\ Percentages(s) = {25, 50, 75, 100}
        /\ LastEvent(s).type = "progress" /\ LastEvent(s).progress = 100

-----------------------------------------------------------------------------
(* C38: an init request that fails, for a missing field, a target path     *)
(* that does not exist or an init subprocess that did not exit 0, is       *)
(* answered with an error at once and writes nothing to the configuration: *)
(* no location is added and none is altered.                               *)

\* The request r, whose tool run is recorded in the locals l, fails.
InitFails(r, l) ==
    /\ r.handler = "init"
    /\ \/ r.location = <<>> \/ r.password = Absent
       \/ r.location \notin ExistingDirs
       \/ l.ran = "failed"

C38_FailedInitChangesNothing ==
    [][\A s \in Slots :
          (pc'[s] # pc[s] /\ InitFails(req'[s], loc'[s])) =>
              /\ pc[s] = "idle" /\ pc'[s] = "done"
              /\ resp'[s].status \in {400, 500}
              /\ config' = config]_vars

\* The init of /srv/repoA failed in the tool; repoA is registered at
\* /tmp/repoA with a known path, as before.
C38_Witness ==
    \E s \in Slots :
        /\ InitFails(req[s], loc[s]) /\ pc[s] = "done"
        /\ req[s].location = <<"srv", "repoA">> /\ loc[s].ran = "failed"
        /\ resp[s] = ErrorResp(500)
        /\ HasLocation(config, "repoA")
        /\ config.locations["repoA"] = [repo_path |-> <<"tmp", "repoA">>, paths |-> <<"/data">>]

====
